---- MODULE Spec2Model ----
(***************************************************************************)
(* A model of the fact memory of the assistant (src/src/modular_memory.py): *)
(* JSONMemoryBackend (the fact store and its file), the learning loop and   *)
(* the context retrieval of ModularMemorySystem, and the semantic index.    *)
(*                                                                          *)
(* A Python str is a sequence of one-character strings, so that lower(),    *)
(* strip(), split(), len() and the substring test `in` are computed as      *)
(* Python computes them.  A confidence is a number of hundredths (0.85 is   *)
(* 85).  None and a missing dict key are the empty sequence <<>>, a present  *)
(* value v is <<v>>.                                                        *)
(***************************************************************************)
EXTENDS Integers, Sequences, FiniteSets, TLC

VARIABLES
    facts,      \* JSONMemoryBackend.data["facts"], the in-memory collection
    file,       \* the facts array of the persisted file memory_v2.json
    now,        \* the reading of datetime.now()
    index,      \* the documents of SemanticContextRetriever.collection
    retriever,  \* whether ModularMemorySystem.context_retriever is not None
    stats,      \* ModularMemorySystem.stats
    turn,       \* the chat turn whose learn step is due, if any
    last,       \* what the caller saw of the latest call
    loaded,     \* the shape of JSONMemoryBackend.data, as _load returned it
    reply,      \* where the reply of the chat turn is: none, ready or returned
    calls,      \* the save_fact calls of concurrent chat turns, by turn
    exported    \* the file that export_training_data wrote, if any

vars ==
    <<facts, file, now, index, retriever, stats, turn, last, loaded, reply,
      calls, exported>>

----------------------------------------------------------------------------
(* Bounds of the model.                                                     *)

MaxFacts == 6       \* facts the store may hold
MaxClock == 1       \* distinct readings of the clock
MaxAccess == 2      \* access_count a retrieval may reach
MaxIndex == 2       \* documents the semantic index may hold
MaxOpsFacts == 2    \* facts the store of SpecOps may hold before an insert
MaxLimit == 2       \* limit of a search

----------------------------------------------------------------------------
(* Constants of the program.                                                *)

ConfidenceGate == 85        \* `if confidence < 0.85`, in hundredths
DefaultConfidence == 80     \* fact_data.get('confidence', 0.8)
LearnedFromLen == 100       \* user_message[:100]

\* self.learning_engines, as the assistant builds the memory (with its LLM)
learning_engines == <<"LLMBasedLearning", "PatternBasedLearning">>

----------------------------------------------------------------------------
(* Python str operations on sequences of characters.                        *)

Space == " "

Whitespace == {Space, "\t", "\n"}

UpperToLower ==
    [A |-> "a", B |-> "b", C |-> "c", D |-> "d", E |-> "e", F |-> "f",
     G |-> "g", H |-> "h", I |-> "i", J |-> "j", K |-> "k", L |-> "l",
     M |-> "m", N |-> "n", O |-> "o", P |-> "p", Q |-> "q", R |-> "r",
     S |-> "s", T |-> "t", U |-> "u", V |-> "v", W |-> "w", X |-> "x",
     Y |-> "y", Z |-> "z"]

\* str.lower()
lower(s) ==
    [i \in 1..Len(s) |->
        IF s[i] \in DOMAIN UpperToLower THEN UpperToLower[s[i]] ELSE s[i]]

\* str.strip()
strip(s) ==
    LET solid == {i \in 1..Len(s) : s[i] \notin Whitespace}
    IN  IF solid = {} THEN <<>>
        ELSE LET lo == CHOOSE i \in solid : \A j \in solid : i <= j
                 hi == CHOOSE i \in solid : \A j \in solid : j <= i
             IN  SubSeq(s, lo, hi)

\* needle in hay
contains(hay, needle) ==
    \E i \in 1..(Len(hay) - Len(needle) + 1) :
        SubSeq(hay, i, i + Len(needle) - 1) = needle

\* set(str.split()): the maximal runs of characters that are not whitespace
words(s) ==
    {SubSeq(s, i, j) : <<i, j>> \in
        {p \in (1..Len(s)) \X (1..Len(s)) :
            /\ p[1] <= p[2]
            /\ \A k \in p[1]..p[2] : s[k] \notin Whitespace
            /\ (p[1] = 1 \/ s[p[1] - 1] \in Whitespace)
            /\ (p[2] = Len(s) \/ s[p[2] + 1] \in Whitespace)}}

\* sep.join(parts) for a one-character separator
RECURSIVE join(_, _)
join(sep, parts) ==
    IF parts = <<>> THEN <<>>
    ELSE IF Len(parts) = 1 THEN parts[1]
    ELSE parts[1] \o <<sep>> \o join(sep, Tail(parts))

Min(a, b) == IF a <= b THEN a ELSE b

----------------------------------------------------------------------------
(* The fact texts, categories and engines the actions draw their inputs     *)
(* from.                                                                    *)

\* "a b"
T_ab == <<"a", Space, "b">>

\* "c d"
T_cd == <<"c", Space, "d">>

\* "a b c d"
T_abcd == <<"a", Space, "b", Space, "c", Space, "d">>

\* a "b" \c (with two quotes and a backslash)
T_quoted ==
    <<"a", Space, "\"", "b", "\"", Space, "\\", "c">>

\* "A b"
T_Ab == <<"A", Space, "b">>

\* "b c d e"
T_bcde == <<"b", Space, "c", Space, "d", Space, "e">>

\* "a b "
T_ab_pad == <<"a", Space, "b", Space>>

\* "User likes pizza"
T_likes_pizza ==
    <<"U", "s", "e", "r", Space, "l", "i", "k", "e", "s", Space, "p", "i",
      "z", "z", "a">>

\* "User really likes pepperoni pizza from Tony's"
T_pepperoni ==
    <<"U", "s", "e", "r", Space, "r", "e", "a", "l", "l", "y", Space, "l",
      "i", "k", "e", "s", Space, "p", "e", "p", "p", "e", "r", "o", "n", "i",
      Space, "p", "i", "z", "z", "a", Space, "f", "r", "o", "m", Space, "T",
      "o", "n", "y", "'", "s">>

\* "general"
general == <<"g", "e", "n", "e", "r", "a", "l">>

\* "preferences"
preferences == <<"p", "r", "e", "f", "e", "r", "e", "n", "c", "e", "s">>

\* "identity"
identity == <<"i", "d", "e", "n", "t", "i", "t", "y">>

\* "relationships"
relationships ==
    <<"r", "e", "l", "a", "t", "i", "o", "n", "s", "h", "i", "p", "s">>

\* "hobbies"
hobbies == <<"h", "o", "b", "b", "i", "e", "s">>

\* "user_specified"
user_specified ==
    <<"u", "s", "e", "r", "_", "s", "p", "e", "c", "i", "f", "i", "e", "d">>

\* The categories of the model
AllCategories ==
    {general, preferences, identity, user_specified, relationships, hobbies}

\* An utterance of the user
U_turn == <<"u">>

\* "we like hot pizza"
F_pizza ==
    <<"w", "e", Space, "l", "i", "k", "e", Space, "h", "o", "t", Space, "p",
      "i", "z", "z", "a">>

\* "we like hot pasta now"
F_pasta ==
    <<"w", "e", Space, "l", "i", "k", "e", Space, "h", "o", "t", Space, "p",
      "a", "s", "t", "a", Space, "n", "o", "w">>

\* "Born in may"
F_born == <<"B", "o", "r", "n", Space, "i", "n", Space, "m", "a", "y">>

\* "pie a"
F_pie_a == <<"p", "i", "e", Space, "a">>

\* "pie b"
F_pie_b == <<"p", "i", "e", Space, "b">>

\* "pie c"
F_pie_c == <<"p", "i", "e", Space, "c">>

\* "pie d"
F_pie_d == <<"p", "i", "e", Space, "d">>

\* "pie e"
F_pie_e == <<"p", "i", "e", Space, "e">>

\* "pizza"
Q_pizza == <<"p", "i", "z", "z", "a">>

\* "Born"
Q_Born == <<"B", "o", "r", "n">>

\* "pizza age"
Q_pizza_age == <<"p", "i", "z", "z", "a", Space, "a", "g", "e">>

\* "My dog's birthday is June 5"
U_dog ==
    <<"M", "y", Space, "d", "o", "g", "'", "s", Space, "b", "i", "r", "t",
      "h", "d", "a", "y", Space, "i", "s", Space, "J", "u", "n", "e", Space,
      "5">>

\* "My birthday is March 24, 1990"
U_own ==
    <<"M", "y", Space, "b", "i", "r", "t", "h", "d", "a", "y", Space, "i",
      "s", Space, "M", "a", "r", "c", "h", Space, "2", "4", ",", Space, "1",
      "9", "9", "0">>

\* "Okay, my name is Bob"
U_okay ==
    <<"O", "k", "a", "y", ",", Space, "m", "y", Space, "n", "a", "m", "e",
      Space, "i", "s", Space, "B", "o", "b">>

\* "SOUNDS GOOD, I live in Paris"
U_sounds ==
    <<"S", "O", "U", "N", "D", "S", Space, "G", "O", "O", "D", ",", Space,
      "I", Space, "l", "i", "v", "e", Space, "i", "n", Space, "P", "a", "r",
      "i", "s">>

\* "I'm fine"
U_fine == <<"I", "'", "m", Space, "f", "i", "n", "e">>

\* "Great, call me Bob"
U_great ==
    <<"G", "r", "e", "a", "t", ",", Space, "c", "a", "l", "l", Space, "m",
      "e", Space, "B", "o", "b">>

\* "I'm Bob"
U_short == <<"I", "'", "m", Space, "B", "o", "b">>

\* "Can you call me Bob"
U_can ==
    <<"C", "a", "n", Space, "y", "o", "u", Space, "c", "a", "l", "l", Space,
      "m", "e", Space, "B", "o", "b">>

\* "Is my name Bob"
U_is ==
    <<"I", "s", Space, "m", "y", Space, "n", "a", "m", "e", Space, "B", "o",
      "b">>

\* "User's birthday is March 24, 1990"
F_user_birthday ==
    <<"U", "s", "e", "r", "'", "s", Space, "b", "i", "r", "t", "h", "d", "a",
      "y", Space, "i", "s", Space, "M", "a", "r", "c", "h", Space, "2", "4",
      ",", Space, "1", "9", "9", "0">>

\* "User's pet's birthday is June 5"
F_pet_birthday ==
    <<"U", "s", "e", "r", "'", "s", Space, "p", "e", "t", "'", "s", Space,
      "b", "i", "r", "t", "h", "d", "a", "y", Space, "i", "s", Space, "J",
      "u", "n", "e", Space, "5">>

\* "User's dog's birthday is June 5"
F_dog_birthday ==
    <<"U", "s", "e", "r", "'", "s", Space, "d", "o", "g", "'", "s", Space,
      "b", "i", "r", "t", "h", "d", "a", "y", Space, "i", "s", Space, "J",
      "u", "n", "e", Space, "5">>

\* "User's name is Bob"
F_name ==
    <<"U", "s", "e", "r", "'", "s", Space, "n", "a", "m", "e", Space, "i",
      "s", Space, "B", "o", "b">>

\* "User lives in Paris"
F_lives ==
    <<"U", "s", "e", "r", Space, "l", "i", "v", "e", "s", Space, "i", "n",
      Space, "P", "a", "r", "i", "s">>

\* "User plays chess daily"
F_chess ==
    <<"U", "s", "e", "r", Space, "p", "l", "a", "y", "s", Space, "c", "h",
      "e", "s", "s", Space, "d", "a", "i", "l", "y">>

\* What the user says in the chat turns of the model
Utterances == {U_dog, U_own, U_okay, U_sounds, U_fine, U_great}

\* The utterances of the turns that try the early returns of the engines:
\* two words, a request that starts with "can", a question, a statement
FilterUtterances == {U_short, U_can, U_is, U_own}

\* The fact texts that the engines make of them, and those of the answers of
\* the model
ChatTexts ==
    {F_user_birthday, F_pet_birthday, F_dog_birthday, F_name, F_lives, F_chess}

\* The fact texts of the retrieval scenarios
ContextTexts == {F_pizza, F_pasta, F_born}

\* The fact texts of a file that earlier sessions left behind
PieTexts == <<F_pie_a, F_pie_b, F_pie_c, F_pie_d, F_pie_e>>

\* The queries of the model: "pizza", which has synonyms, "Born" and
\* "pizza age", which the identity branch of get_facts applies to, and the
\* empty query
AllQueries == {Q_pizza, Q_Born, Q_pizza_age, <<>>}

\* The texts of the manual inserts
StoreTexts == {T_ab, T_cd, T_abcd, T_Ab, T_bcde, T_ab_pad}

\* The fact texts of the learned inserts
LearnedTexts == {T_likes_pizza, T_pepperoni}

\* Every fact text of the model
AllTexts ==
    StoreTexts \cup LearnedTexts \cup ContextTexts \cup ChatTexts
        \cup {T_quoted}
        \cup {PieTexts[i] : i \in 1..Len(PieTexts)} \cup {<<>>}

----------------------------------------------------------------------------
(* JSONMemoryBackend                                                        *)

\* _are_similar mutated: 40% of the words is enough.
AreSimilarLowerThreshold(fact1, fact2) ==
    \/ fact1 = fact2
    \/ contains(fact2, fact1)
    \/ contains(fact1, fact2)
    \/ LET words1 == words(fact1)
           words2 == words(fact2)
           overlap == Cardinality(words1 \cap words2)
           min_length == Min(Cardinality(words1), Cardinality(words2))
       IN  min_length > 0 /\ overlap * 10 > 4 * min_length

_are_similar(fact1, fact2) ==
    \/ fact1 = fact2
    \/ contains(fact2, fact1)
    \/ contains(fact1, fact2)
    \/ LET words1 == words(fact1)
           words2 == words(fact2)
           overlap == Cardinality(words1 \cap words2)
           min_length == Min(Cardinality(words1), Cardinality(words2))
       IN  min_length > 0 /\ overlap * 10 > 7 * min_length

\* fact.lower().strip(), as save_fact normalises both texts before the test
normalized(fact) == strip(lower(fact))

\* The pairs of fact texts of the model that _are_similar holds of once both
\* are normalised (the test is computed once for each pair)
Similar ==
    {p : p \in {q \in AllTexts \X AllTexts :
                    _are_similar(normalized(q[1]), normalized(q[2]))}}

\* The positions of the stored facts that the loop of save_fact finds similar
SimilarAt(fs, fact) ==
    {i \in 1..Len(fs) : <<fact, fs[i].fact>> \in Similar}

First(S) == CHOOSE i \in S : \A j \in S : i <= j

\* The entry save_fact appends
fact_entry(fact, category, metadata, t) ==
    [fact |-> fact, category |-> category, timestamp |-> t,
     access_count |-> 0, last_accessed |-> <<>>, metadata |-> metadata]

\* save_fact mutated: a similar stored fact no longer stops the append.
SaveFactAlwaysAppends(fs, fact, category, metadata, t) ==
    [facts |-> Append(fs, fact_entry(fact, category, metadata, t)),
     ret |-> TRUE, saved |-> TRUE]

\* save_fact mutated: a similar stored fact is overwritten whatever the lengths.
SaveFactAlwaysUpdates(fs, fact, category, metadata, t) ==
    LET similar == SimilarAt(fs, fact)
    IN  IF similar # {}
        THEN [facts |-> [fs EXCEPT ![First(similar)].fact = fact,
                                   ![First(similar)].timestamp = t,
                                   ![First(similar)].metadata = metadata],
              ret |-> FALSE, saved |-> TRUE]
        ELSE [facts |-> Append(fs, fact_entry(fact, category, metadata, t)),
              ret |-> TRUE, saved |-> TRUE]

\* save_fact mutated: a longer similar text takes the place of the stored
\* fact by removing it.
SaveFactRemovesSimilar(fs, fact, category, metadata, t) ==
    LET similar == SimilarAt(fs, fact)
    IN  IF similar # {}
        THEN LET i == First(similar)
             IN  IF Len(fact) > Len(fs[i].fact)
                 THEN [facts |-> SubSeq(fs, 1, i - 1) \o SubSeq(fs, i + 1, Len(fs)),
                       ret |-> FALSE, saved |-> TRUE]
                 ELSE [facts |-> fs, ret |-> FALSE, saved |-> FALSE]
        ELSE [facts |-> Append(fs, fact_entry(fact, category, metadata, t)),
              ret |-> TRUE, saved |-> TRUE]

\* save_fact mutated: the update takes the category of the candidate too.
SaveFactUpdateTakesCategory(fs, fact, category, metadata, t) ==
    LET similar == SimilarAt(fs, fact)
    IN  IF similar # {}
        THEN LET i == First(similar)
             IN  IF Len(fact) > Len(fs[i].fact)
                 THEN [facts |-> [fs EXCEPT ![i].fact = fact,
                                            ![i].category = category,
                                            ![i].timestamp = t,
                                            ![i].metadata = metadata],
                       ret |-> FALSE, saved |-> TRUE]
                 ELSE [facts |-> fs, ret |-> FALSE, saved |-> FALSE]
        ELSE [facts |-> Append(fs, fact_entry(fact, category, metadata, t)),
              ret |-> TRUE, saved |-> TRUE]

\* save_fact mutated: the update of a similar stored fact returns True.
SaveFactUpdateReturnsTrue(fs, fact, category, metadata, t) ==
    LET similar == SimilarAt(fs, fact)
    IN  IF similar # {}
        THEN LET i == First(similar)
             IN  IF Len(fact) > Len(fs[i].fact)
                 THEN [facts |-> [fs EXCEPT ![i].fact = fact,
                                            ![i].timestamp = t,
                                            ![i].metadata = metadata],
                       ret |-> TRUE, saved |-> TRUE]
                 ELSE [facts |-> fs, ret |-> FALSE, saved |-> FALSE]
        ELSE [facts |-> Append(fs, fact_entry(fact, category, metadata, t)),
              ret |-> TRUE, saved |-> TRUE]

\* save_fact on the collection fs at clock reading t: the collection it leaves,
\* what it returns, and whether it called _save.
save_fact(fs, fact, category, metadata, t) ==
    LET similar == SimilarAt(fs, fact)
    IN  IF similar # {}
        THEN LET i == First(similar)
             IN  IF Len(fact) > Len(fs[i].fact)
                 THEN [facts |-> [fs EXCEPT ![i].fact = fact,
                                            ![i].timestamp = t,
                                            ![i].metadata = metadata],
                       ret |-> FALSE, saved |-> TRUE]
                 ELSE [facts |-> fs, ret |-> FALSE, saved |-> FALSE]
        ELSE [facts |-> Append(fs, fact_entry(fact, category, metadata, t)),
              ret |-> TRUE, saved |-> TRUE]

\* get_all_facts
get_all_facts(fs) == fs

\* _load on the file f that the assistant finds at startup.  f.state says
\* what is there: no file ("absent"), a file that cannot be read
\* ("unreadable") or parsed ("malformed"), a JSON document that is a dict
\* with a facts array ("facts", the array is f.facts), a dict without one
\* ("no_facts") or no dict ("not_dict").  json.load returns whatever document
\* parses; every failure comes to {"facts": [], "metadata": {}}.
_load(f) ==
    IF f.state \in {"absent", "unreadable", "malformed"}
    THEN [shape |-> "facts", facts |-> <<>>]
    ELSE [shape |-> f.state, facts |-> f.facts]

----------------------------------------------------------------------------
(* The state after construction and the calls of the caller-facing API.     *)

\* dict.get(key, default) and dict[key] = value
DictGet(d, key, default) == IF key \in DOMAIN d THEN d[key] ELSE default

DictSet(d, key, value) ==
    [k \in DOMAIN d \cup {key} |-> IF k = key THEN value ELSE d[k]]

EmptyDict == [k \in {} |-> 0]

\* What the caller saw of a call: the operation and its argument, whether it
\* returned (ok) or raised, what it returned (inserted, count), whether it
\* repeats the insert before it (rep), the texts it handed to save_fact
\* (offered), the engines whose errors it logged (errors), and of a
\* retrieval the string it returned (out), what the semantic search did
\* (semantic) and whether get_facts was called (searched), of a call of
\* get_facts its limit and the list it returned (ret), and of a call of
\* extract_facts what the completion service did (response) and the list it
\* returned (ret).
NoCall ==
    [op |-> "none", arg |-> <<>>, ok |-> TRUE, inserted |-> FALSE,
     rep |-> FALSE, count |-> 0, offered |-> <<>>, errors |-> <<>>,
     out |-> <<>>, semantic |-> "none", searched |-> FALSE, limit |-> 0,
     ret |-> <<>>, response |-> <<>>]

\* A save_fact call of a concurrent chat turn: where it is (pc), its arguments,
\* the position of the similar stored fact its loop found (at, 0 for none)
\* and what it returned
IdleCall ==
    [pc |-> "idle", fact |-> <<>>, category |-> <<>>, at |-> 0, ret |-> FALSE]

\* The chat turns that may run at the same time
Turns == {1, 2}

NoCalls == [t \in Turns |-> IdleCall]

\* ModularMemorySystem.__init__ on an empty data directory
Init ==
    /\ facts = <<>>
    /\ file = <<>>
    /\ now = 0
    /\ index = <<>>
    /\ retriever \in BOOLEAN
    /\ stats = [total_learned |-> 0, by_category |-> EmptyDict,
                by_engine |-> EmptyDict]
    /\ turn = <<>>
    /\ last = NoCall
    /\ loaded = "facts"
    /\ reply = "none"
    /\ calls = NoCalls
    /\ exported = <<>>

\* The clock moves on between two readings of datetime.now()
Tick ==
    /\ turn = <<>>
    /\ now < MaxClock
    /\ now' = now + 1
    /\ UNCHANGED <<facts, file, index, retriever, stats, turn, last, loaded,
                   reply, calls, exported>>

\* remember_fact_manually(fact, category); writeOk: whether a write of the
\* file succeeds during the call (_save raises otherwise, after the in-memory
\* collection was changed)
remember_fact_manually(fact, category, writeOk) ==
    /\ turn = <<>>
    /\ IF loaded # "facts"
       THEN \* self.data["facts"] raises
            /\ last' = [NoCall EXCEPT !.op = "remember", !.arg = fact,
                           !.ok = FALSE,
                           !.rep = last.op = "remember" /\ last.arg = fact]
            /\ UNCHANGED <<facts, file>>
       ELSE LET r == save_fact(facts, fact, category, <<>>, now)
                ok == r.saved => writeOk
            IN  /\ Len(r.facts) <= MaxFacts
                /\ facts' = r.facts
                /\ file' = IF r.saved /\ writeOk THEN r.facts ELSE file
                /\ last' = [NoCall EXCEPT !.op = "remember", !.arg = fact,
                               !.ok = ok, !.inserted = ok /\ r.ret,
                               !.rep = last.op = "remember" /\ last.arg = fact]
    /\ reply' = "none"
    /\ UNCHANGED <<now, index, retriever, stats, turn, loaded, calls, exported>>

\* dict.get on a candidate: a missing key is <<>>
Get(field, default) == IF field = <<>> THEN default ELSE field[1]

\* user_message[:100]
learned_from(user_message) ==
    SubSeq(user_message, 1, Min(Len(user_message), LearnedFromLen))

\* The confidence gate mutated: no candidate is skipped.
BelowGateNever(confidence) == FALSE

\* `if confidence < 0.85: continue`
BelowGate(confidence) == confidence < ConfidenceGate

\* The stats update that follows a true insert
update_stats(st, category, engine) ==
    [st EXCEPT !.total_learned = @ + 1,
               !.by_category = DictSet(@, category, DictGet(@, category, 0) + 1),
               !.by_engine = DictSet(@, engine, DictGet(@, engine, 0) + 1)]

\* The body of `for fact_data in facts` for one candidate that passed the
\* gate, whose save_fact call came to r.  s is the state the loop has
\* reached: the collection, the file, the index, the stats, learned_count,
\* what the call has handed to save_fact, and whether an exception is on its
\* way out of the loop (_save or add_fact raised).
learn_fact(s, r, fact, category, engine, writeOk, addOk) ==
    IF loaded # "facts"
    THEN [s EXCEPT !.offered = Append(@, fact),
                   !.raised = TRUE]         \* self.data["facts"] raises
    ELSE IF r.saved /\ ~writeOk
    THEN [s EXCEPT !.facts = r.facts, !.offered = Append(@, fact),
                   !.raised = TRUE]                     \* _save raises
    ELSE IF ~r.ret
    THEN [s EXCEPT !.facts = r.facts, !.offered = Append(@, fact),
                   !.file = IF r.saved THEN r.facts ELSE @]
    ELSE IF retriever /\ ~addOk
    THEN [s EXCEPT !.facts = r.facts, !.offered = Append(@, fact),
                   !.file = r.facts, !.count = @ + 1,
                   !.raised = TRUE]                     \* add_fact raises
    ELSE [s EXCEPT !.facts = r.facts, !.offered = Append(@, fact),
                   !.file = r.facts, !.count = @ + 1,
                   !.index = IF retriever
                             THEN Append(@, [fact |-> fact, category |-> category])
                             ELSE @,
                   !.stats = update_stats(@, category, engine)]

\* `for fact_data in facts` for one engine, from the candidate list cands
\* on; an exception on its way out ends the loop
RECURSIVE learn_facts(_, _, _, _, _, _, _)
learn_facts(s, cands, engine, user_message, writeOk, addOk, t) ==
    IF cands = <<>> \/ s.raised THEN s
    ELSE IF BelowGate(Get(Head(cands).confidence, DefaultConfidence))
    THEN learn_facts(s, Tail(cands), engine, user_message, writeOk, addOk, t)
    ELSE learn_facts(
             learn_fact(s,
                 save_fact(s.facts, Get(Head(cands).fact, <<>>),
                     Get(Head(cands).category, general),
                     <<[confidence |-> Get(Head(cands).confidence, DefaultConfidence),
                        engine |-> engine,
                        learned_from |-> learned_from(user_message)]>>, t),
                 Get(Head(cands).fact, <<>>), Get(Head(cands).category, general),
                 engine, writeOk, addOk),
             Tail(cands), engine, user_message, writeOk, addOk, t)

\* The handler mutated: the exception is logged and goes on to the caller.
ExceptLogsAndReraises(s, engine) == [s EXCEPT !.errors = Append(@, engine)]

\* `except Exception as e: print(...); continue` around one engine's work: an
\* exception on its way out is logged and goes no further
except_engine_error(s, engine) ==
    IF s.raised
    THEN [s EXCEPT !.raised = FALSE, !.errors = Append(@, engine)]
    ELSE s

\* `for engine in self.learning_engines`, from engine number e on; outcomes[e]
\* is what extract_facts of engine e does: it raises, or returns candidates.
\* An exception that the handler lets through ends the loop and the call.
RECURSIVE learn_engines(_, _, _, _, _, _, _)
learn_engines(s, e, outcomes, user_message, writeOk, addOk, t) ==
    IF e > Len(learning_engines) \/ s.raised THEN s
    ELSE learn_engines(
             except_engine_error(
                 IF outcomes[e].raises
                 THEN [s EXCEPT !.raised = TRUE]
                 ELSE learn_facts(s, outcomes[e].facts, learning_engines[e],
                                  user_message, writeOk, addOk, t),
                 learning_engines[e]),
             e + 1, outcomes, user_message, writeOk, addOk, t)

\* What learn_from_conversation makes of the turn t in the state it finds
learn_result(t) ==
    learn_engines([facts |-> facts, file |-> file, index |-> index,
                   stats |-> stats, count |-> 0, offered |-> <<>>,
                   raised |-> FALSE, errors |-> <<>>],
                  1, t.outcomes, t.user_message, t.writeOk, t.addOk, now)

\* A chat turn reaches its learn step (JarvisAssistant.chat): user_message
\* is the utterance, outcomes what extract_facts of each engine does with it
\* (it raises, or returns candidates), writeOk and addOk whether the writes of
\* the file and the adds to the semantic index succeed during the step
BeginLearn(user_message, outcomes, writeOk, addOk) ==
    /\ turn = <<>>
    /\ \E t \in {[user_message |-> user_message, outcomes |-> outcomes,
                   writeOk |-> writeOk, addOk |-> addOk]} :
           /\ \E s \in {learn_result(t)} :
                  Len(s.facts) <= MaxFacts /\ Len(s.index) <= MaxIndex
           /\ turn' = <<t>>
    /\ reply' = "ready"
    /\ UNCHANGED <<facts, file, now, index, retriever, stats, last, loaded,
                   calls, exported>>

\* learn_from_conversation(user_message) of the turn in flight, which comes
\* to its end when the calls of the engines return; JarvisAssistant.chat
\* returns the reply after it
learn_from_conversation ==
    /\ turn # <<>>
    /\ \A e \in 1..Len(turn[1].outcomes) : ~turn[1].outcomes[e].hangs
    /\ \E s \in {learn_result(turn[1])} :
           /\ turn' = <<>>
           /\ facts' = s.facts
           /\ file' = s.file
           /\ index' = s.index
           /\ stats' = s.stats
           /\ last' = [NoCall EXCEPT !.op = "learn",
                          !.arg = turn[1].user_message,
                          !.ok = ~s.raised,
                          !.count = IF s.raised THEN 0 ELSE s.count,
                          !.offered = s.offered, !.errors = s.errors]
    /\ reply' = "returned"
    /\ UNCHANGED <<now, retriever, loaded, calls, exported>>

----------------------------------------------------------------------------
(* Retrieval: JSONMemoryBackend.get_facts, the semantic search and           *)
(* ModularMemorySystem.get_context_for_query.                               *)

SearchLimit == 5        \* self.storage.get_facts(query, limit=5)
SemanticLimit == 5      \* get_relevant_context(query, limit=5)

\* The synonym table of get_facts
keyword_map ==
    \* 'birthday': ['birthday', 'born', 'birth date', 'age', 'bday']
       (<<"b", "i", "r", "t", "h", "d", "a", "y">> :>
           {<<"b", "i", "r", "t", "h", "d", "a", "y">>,
            <<"b", "o", "r", "n">>,
            <<"b", "i", "r", "t", "h", Space, "d", "a", "t", "e">>,
            <<"a", "g", "e">>,
            <<"b", "d", "a", "y">>})
    \* 'favorite': ['favorite', 'favourite', 'fav', 'like', 'prefer', 'love']
    @@ (<<"f", "a", "v", "o", "r", "i", "t", "e">> :>
           {<<"f", "a", "v", "o", "r", "i", "t", "e">>,
            <<"f", "a", "v", "o", "u", "r", "i", "t", "e">>,
            <<"f", "a", "v">>,
            <<"l", "i", "k", "e">>,
            <<"p", "r", "e", "f", "e", "r">>,
            <<"l", "o", "v", "e">>})
    \* 'pizza': ['pizza', 'pie']
    @@ (<<"p", "i", "z", "z", "a">> :>
           {<<"p", "i", "z", "z", "a">>,
            <<"p", "i", "e">>})
    \* 'food': ['food', 'eat', 'meal', 'dish']
    @@ (<<"f", "o", "o", "d">> :>
           {<<"f", "o", "o", "d">>,
            <<"e", "a", "t">>,
            <<"m", "e", "a", "l">>,
            <<"d", "i", "s", "h">>})
    \* 'game': ['game', 'gaming', 'play']
    @@ (<<"g", "a", "m", "e">> :>
           {<<"g", "a", "m", "e">>,
            <<"g", "a", "m", "i", "n", "g">>,
            <<"p", "l", "a", "y">>})
    \* 'live': ['live', 'from', 'location', 'city']
    @@ (<<"l", "i", "v", "e">> :>
           {<<"l", "i", "v", "e">>,
            <<"f", "r", "o", "m">>,
            <<"l", "o", "c", "a", "t", "i", "o", "n">>,
            <<"c", "i", "t", "y">>})
    \* 'name': ['name', 'called']
    @@ (<<"n", "a", "m", "e">> :>
           {<<"n", "a", "m", "e">>,
            <<"c", "a", "l", "l", "e", "d">>})
    \* 'dog': ['dog', 'puppy', 'pet']
    @@ (<<"d", "o", "g">> :>
           {<<"d", "o", "g">>,
            <<"p", "u", "p", "p", "y">>,
            <<"p", "e", "t">>})
    \* 'cat': ['cat', 'kitten', 'pet']
    @@ (<<"c", "a", "t">> :>
           {<<"c", "a", "t">>,
            <<"k", "i", "t", "t", "e", "n">>,
            <<"p", "e", "t">>})

\* "birthday"
birthday == <<"b", "i", "r", "t", "h", "d", "a", "y">>

\* "born"
born == <<"b", "o", "r", "n">>

\* "age"
age == <<"a", "g", "e">>

\* set(query_lower.split()) with the synonyms of its words added
expanded_keywords(query_lower) ==
    LET query_words == words(query_lower)
    IN  query_words \cup
            UNION {keyword_map[word] : word \in query_words \cap DOMAIN keyword_map}

\* any(keyword in fact_lower for keyword in expanded_keywords)
matches(fact, keywords) ==
    \E keyword \in keywords : contains(lower(fact), keyword)

\* The pairs of a fact text and a query of the model such that the text
\* matches the expanded keywords of the query (the test is computed once for
\* each pair)
Matching ==
    {p : p \in {q \in AllTexts \X AllQueries :
                    matches(q[1], expanded_keywords(lower(q[2])))}}

\* The queries of the model that the identity branch of get_facts applies to:
\* any(k in query_lower for k in ['birthday', 'born', 'age'])
IdentityQueries ==
    {p : p \in {q \in AllQueries :
                    \E k \in {birthday, born, age} : contains(lower(q), k)}}

\* Whether x goes before y under the key (access_count, timestamp), reversed
SortsBefore(x, y) ==
    \/ x.access_count > y.access_count
    \/ x.access_count = y.access_count /\ x.timestamp > y.timestamp

\* The sort mutated: the list stays in the order of the loop.
SortKeepsOrder(s) == s

\* list.sort(key=..., reverse=True): descending and stable, so that entries
\* with equal keys keep the order they had
RECURSIVE sort_reverse(_)
sort_reverse(s) ==
    IF s = <<>> THEN <<>>
    ELSE LET rest == sort_reverse(SubSeq(s, 1, Len(s) - 1))
             x == s[Len(s)]
             k == Cardinality({i \in 1..Len(rest) : ~SortsBefore(x, rest[i])})
         IN  SubSeq(rest, 1, k) \o <<x>> \o SubSeq(rest, k + 1, Len(rest))

\* The loop `for fact in self.data["facts"]` of get_facts from entry i on:
\* relevant is the list built so far, of the entries after their bump
RECURSIVE collect_relevant(_, _, _, _, _)
collect_relevant(fs, i, query, t, relevant) ==
    IF i > Len(fs) THEN relevant
    ELSE IF <<fs[i].fact, query>> \notin Matching
    THEN collect_relevant(fs, i + 1, query, t, relevant)
    ELSE
    LET fact == [fs[i] EXCEPT !.access_count = @ + 1, !.last_accessed = <<t>>]
    IN  IF fact.category = identity /\ query \in IdentityQueries
        THEN collect_relevant(fs, i + 1, query, t, <<fact>> \o relevant)
        ELSE collect_relevant(fs, i + 1, query, t, Append(relevant, fact))

\* The loop mutated: it counts the retrieval and leaves last_accessed alone.
BumpedWithoutTime(fs, query, t) ==
    [i \in 1..Len(fs) |->
        IF <<fs[i].fact, query>> \in Matching
        THEN [fs[i] EXCEPT !.access_count = @ + 1]
        ELSE fs[i]]

\* The collection after the loop: the entries that matched have their
\* access_count and last_accessed set
RECURSIVE bumped(_, _, _)
bumped(fs, query, t) ==
    IF fs = <<>> THEN <<>>
    ELSE <<(IF <<Head(fs).fact, query>> \in Matching
            THEN [Head(fs) EXCEPT !.access_count = @ + 1,
                                  !.last_accessed = <<t>>]
            ELSE Head(fs))>> \o bumped(Tail(fs), query, t)

\* get_facts mutated: the search does not write the file.
GetFactsWithoutSave(fs, query, limit, t) ==
    IF query = <<>>
    THEN [facts |-> fs, saved |-> FALSE,
          ret |-> IF limit = 0 THEN fs
                  ELSE SubSeq(fs, Len(fs) - Min(limit, Len(fs)) + 1, Len(fs))]
    ELSE LET relevant == sort_reverse(collect_relevant(fs, 1, query, t, <<>>))
         IN  [facts |-> bumped(fs, query, t), saved |-> FALSE,
              ret |-> SubSeq(relevant, 1, Min(limit, Len(relevant)))]

\* get_facts(query, limit) on the collection fs at clock reading t: the
\* collection it leaves, what it returns, and whether it called _save.
get_facts(fs, query, limit, t) ==
    IF query = <<>>
    THEN [facts |-> fs, saved |-> FALSE,
          ret |-> IF limit = 0 THEN fs
                  ELSE SubSeq(fs, Len(fs) - Min(limit, Len(fs)) + 1, Len(fs))]
    ELSE LET relevant == sort_reverse(collect_relevant(fs, 1, query, t, <<>>))
         IN  [facts |-> bumped(fs, query, t), saved |-> TRUE,
              ret |-> SubSeq(relevant, 1, Min(limit, Len(relevant)))]

LowerToUpper(c) ==
    IF \E u \in DOMAIN UpperToLower : UpperToLower[u] = c
    THEN CHOOSE u \in DOMAIN UpperToLower : UpperToLower[u] = c
    ELSE c

IsLetter(c) ==
    c \in DOMAIN UpperToLower \/ \E u \in DOMAIN UpperToLower : UpperToLower[u] = c

\* str.title(): a letter after a character that is no letter is upper case,
\* every other letter is lower case
title(s) ==
    [i \in 1..Len(s) |->
        IF i > 1 /\ IsLetter(s[i - 1])
        THEN (IF s[i] \in DOMAIN UpperToLower THEN UpperToLower[s[i]] ELSE s[i])
        ELSE LowerToUpper(s[i])]

\* The categories of the model, each with its title (computed once)
Titles ==
    {p : p \in {<<category, title(category) \o <<>> >> :
                    category \in AllCategories}}

titled(category) == (CHOOSE p \in Titles : p[1] = category)[2]

\* "What I know about you:"
Header ==
    <<"W", "h", "a", "t", Space, "I", Space, "k", "n", "o", "w", Space, "a",
      "b", "o", "u", "t", Space, "y", "o", "u", ":">>

\* "  - "
Bullet == <<Space, Space, "-", Space>>

\* The categories of context_list in the order of their first appearance,
\* as the keys of the dict by_category are ordered
RECURSIVE categories_of(_, _)
categories_of(context_list, seen) ==
    IF context_list = <<>> THEN seen
    ELSE LET cat == Head(context_list).category
         IN  categories_of(Tail(context_list),
                 IF \E k \in 1..Len(seen) : seen[k] = cat
                 THEN seen ELSE Append(seen, cat))

\* The lines of one category: its heading and one line for each of its facts
RECURSIVE fact_lines(_, _)
fact_lines(context_list, cat) ==
    IF context_list = <<>> THEN <<>>
    ELSE (IF Head(context_list).category = cat
          THEN <<Bullet \o Head(context_list).fact>> ELSE <<>>)
         \o fact_lines(Tail(context_list), cat)

RECURSIVE category_lines(_, _)
category_lines(context_list, cats) ==
    IF cats = <<>> THEN <<>>
    ELSE <<(<<"\n">> \o titled(Head(cats)) \o <<":">>)>>
         \o fact_lines(context_list, Head(cats))
         \o category_lines(context_list, Tail(cats))

\* _format_context mutated: the facts are left out of the block.
FormatContextHeaderOnly(context_list) ==
    IF context_list = <<>> THEN <<>> ELSE Header

\* _format_context(context_list)
_format_context(context_list) ==
    IF context_list = <<>> THEN <<>>
    ELSE join("\n", <<Header>> \o
             category_lines(context_list, categories_of(context_list, <<>>)))

\* What collection.query may do on the index idx: raise, or return
\* min(n_results, count) documents in the order of its ranking, which is any
SemanticOutcomes(idx, limit) ==
    {[raises |-> TRUE, order |-> <<>>]} \cup
    {[raises |-> FALSE, order |-> o] :
        o \in {f \in [1..Min(limit, Len(idx)) -> 1..Len(idx)] :
                  \A a, b \in DOMAIN f : a # b => f[a] # f[b]}}

\* get_relevant_context mutated: the results of the index are dropped.
SemanticResultsDropped(idx, sem, limit) == <<>>

\* SemanticContextRetriever.get_relevant_context: the documents and their
\* categories, or [] when there is none or the backend raised
get_relevant_context(idx, sem, limit) ==
    IF sem.raises THEN <<>>
    ELSE [k \in 1..Len(sem.order) |->
            [fact |-> idx[sem.order[k]].fact,
             category |-> idx[sem.order[k]].category]]

\* `[{'fact': f['fact'], 'category': f['category']} for f in facts]`
context_of(fs) ==
    [k \in 1..Len(fs) |-> [fact |-> fs[k].fact, category |-> fs[k].category]]

\* The string that the keyword search of get_context_for_query comes to on
\* the collection fs at clock reading t
keyword_context(fs, query, t) ==
    _format_context(context_of(get_facts(fs, query, SearchLimit, t).ret))

\* What get_context_for_query(query) comes to in the state it finds: sem is
\* what collection.query does, writeOk whether the write of the file succeeds
context_result(query, sem, writeOk) ==
    LET context == IF retriever
                   THEN get_relevant_context(index, sem, SemanticLimit)
                   ELSE <<>>
        semantic == IF ~retriever THEN "absent"
                    ELSE IF sem.raises THEN "raised"
                    ELSE IF context = <<>> THEN "empty" ELSE "results"
    IN  IF context # <<>>
        THEN [facts |-> facts, file |-> file, ok |-> TRUE,
              out |-> _format_context(context), semantic |-> semantic,
              searched |-> FALSE]
        ELSE IF loaded # "facts"
        THEN [facts |-> facts, file |-> file, ok |-> FALSE, out |-> <<>>,
              semantic |-> semantic,
              searched |-> TRUE]            \* self.data["facts"] raises
        ELSE
        LET g == get_facts(facts, query, SearchLimit, now)
        IN  IF g.saved /\ ~writeOk
            THEN [facts |-> g.facts, file |-> file, ok |-> FALSE,
                  out |-> <<>>, semantic |-> semantic, searched |-> TRUE]
            ELSE [facts |-> g.facts,
                  file |-> IF g.saved THEN g.facts ELSE file, ok |-> TRUE,
                  out |-> _format_context(context_of(g.ret)),
                  semantic |-> semantic, searched |-> TRUE]

\* get_context_for_query(query), as JarvisAssistant._handle_general_query
\* calls it
get_context_for_query(query, sem, writeOk) ==
    LET r == context_result(query, sem, writeOk)
    IN  /\ turn = <<>>
        /\ \A i \in 1..Len(r.facts) : r.facts[i].access_count <= MaxAccess
        /\ facts' = r.facts
        /\ file' = r.file
        /\ last' = [NoCall EXCEPT !.op = "context", !.arg = query,
                       !.ok = r.ok, !.out = r.out,
                       !.semantic = r.semantic, !.searched = r.searched]
        /\ reply' = "none"
        /\ UNCHANGED <<now, index, retriever, stats, turn, loaded, calls,
                       exported>>

\* JSONMemoryBackend.get_facts(query, limit) called on the store; writeOk:
\* whether the write of the file succeeds (_save raises otherwise, after the
\* entries were changed)
call_get_facts(query, limit, writeOk) ==
    LET g == get_facts(facts, query, limit, now)
        ok == g.saved => writeOk
    IN  /\ turn = <<>>
        /\ loaded = "facts"
        /\ \A i \in 1..Len(g.facts) : g.facts[i].access_count <= MaxAccess
        /\ facts' = g.facts
        /\ file' = IF g.saved /\ writeOk THEN g.facts ELSE file
        /\ last' = [NoCall EXCEPT !.op = "search", !.arg = query,
                       !.limit = limit, !.ok = ok,
                       !.ret = IF ok THEN g.ret ELSE <<>>]
        /\ reply' = "none"
        /\ UNCHANGED <<now, index, retriever, stats, turn, loaded, calls,
                       exported>>

\* The process ends and the assistant is started again: JSONMemoryBackend
\* loads the file (_load comes to no facts when the file cannot be read or
\* parsed), the collection of the index is the persisted one, the stats are
\* new.
Restart(loadOk) ==
    /\ turn = <<>>
    /\ facts' = IF loadOk THEN file ELSE <<>>
    /\ stats' = [total_learned |-> 0, by_category |-> EmptyDict,
                 by_engine |-> EmptyDict]
    /\ last' = NoCall
    /\ loaded' = "facts"
    /\ reply' = "none"
    /\ UNCHANGED <<file, now, index, retriever, turn, calls, exported>>

\* save_fact under concurrent chat turns.  JSONMemoryBackend takes no lock, so
\* the statements of two calls interleave: the loop over the stored facts, the
\* update or the append it decides on, and the write of the file are steps of
\* their own.  (A step is taken as a whole here, the loop and the write
\* included; the interpreter may switch turns inside them as well.)

\* The chat turn t enters save_fact(fact, category)
call_save_fact(t, fact, category) ==
    /\ calls[t].pc = "idle"
    /\ calls' = [calls EXCEPT ![t] = [IdleCall EXCEPT !.pc = "scan",
                                         !.fact = fact, !.category = category]]
    /\ UNCHANGED <<facts, file, now, index, retriever, stats, turn, last,
                   loaded, reply, exported>>

\* `for existing in self.data["facts"]` of the call of t: it finds the first
\* similar stored fact, if any, and decides what the call does
save_fact_scan(t) ==
    /\ calls[t].pc = "scan"
    /\ \E similar \in {SimilarAt(facts, calls[t].fact)} :
           calls' = [calls EXCEPT ![t] =
               IF similar = {} THEN [@ EXCEPT !.pc = "append"]
               ELSE IF Len(calls[t].fact) > Len(facts[First(similar)].fact)
               THEN [@ EXCEPT !.pc = "update", !.at = First(similar)]
               ELSE [@ EXCEPT !.pc = "done", !.ret = FALSE]]
    /\ UNCHANGED <<facts, file, now, index, retriever, stats, turn, last,
                   loaded, reply, exported>>

\* `existing["fact"] = fact` and the two assignments after it
save_fact_update(t) ==
    /\ calls[t].pc = "update"
    /\ facts' = [facts EXCEPT ![calls[t].at].fact = calls[t].fact,
                              ![calls[t].at].timestamp = now,
                              ![calls[t].at].metadata = <<>>]
    /\ calls' = [calls EXCEPT ![t].pc = "save", ![t].ret = FALSE]
    /\ UNCHANGED <<file, now, index, retriever, stats, turn, last, loaded,
                   reply, exported>>

\* `self.data["facts"].append(fact_entry)`
save_fact_append(t) ==
    /\ calls[t].pc = "append"
    /\ facts' = Append(facts, fact_entry(calls[t].fact, calls[t].category,
                                         <<>>, now))
    /\ calls' = [calls EXCEPT ![t].pc = "save", ![t].ret = TRUE]
    /\ UNCHANGED <<file, now, index, retriever, stats, turn, last, loaded,
                   reply, exported>>

\* `self._save()` of the call of t, and its return
_save(t) ==
    /\ calls[t].pc = "save"
    /\ file' = facts
    /\ calls' = [calls EXCEPT ![t].pc = "done"]
    /\ UNCHANGED <<facts, now, index, retriever, stats, turn, last, loaded,
                   reply, exported>>

\* get_stats(): total_facts, the length of get_all_facts(), comes back as
\* count
get_stats ==
    /\ turn = <<>>
    /\ last' = IF loaded # "facts"
               THEN [NoCall EXCEPT !.op = "stats", !.ok = FALSE]
               ELSE [NoCall EXCEPT !.op = "stats",
                                   !.count = Len(get_all_facts(facts))]
    /\ reply' = "none"
    /\ UNCHANGED <<facts, file, now, index, retriever, stats, turn, loaded,
                   calls, exported>>

----------------------------------------------------------------------------
(* Spec: the fact store under manual inserts and learned inserts.           *)

\* An engine returns the candidates cands / an engine raises (or, with hangs,
\* its call never returns)
Returns(cands) == [raises |-> FALSE, hangs |-> FALSE, facts |-> cands]

Raises == [raises |-> TRUE, hangs |-> FALSE, facts |-> <<>>]

\* The call of an engine never returns
Hangs == [raises |-> FALSE, hangs |-> TRUE, facts |-> <<>>]

Cand(fact, category, confidence) ==
    [fact |-> <<fact>>, category |-> <<category>>, confidence |-> <<confidence>>]

StoreCands == {Cand(fact, preferences, 90) : fact \in LearnedTexts}

StoreOutcomes == {Returns(<<>>)} \cup {Returns(<<c>>) : c \in StoreCands}

InitStore == Init /\ retriever = FALSE

Next ==
    \/ Tick
    \/ \E fact \in StoreTexts :
           remember_fact_manually(fact, user_specified, TRUE)
    \/ \E pattern \in StoreOutcomes :
           BeginLearn(U_turn, <<Returns(<<>>), pattern>>, TRUE, TRUE)
    \/ learn_from_conversation

Spec == InitStore /\ [][Next]_vars

----------------------------------------------------------------------------
(* SpecLearn: learn_from_conversation under every outcome of the engines,   *)
(* of the writes of the file and of the adds to the semantic index.         *)

\* A candidate well above the gate, and a longer text similar to it
L_hi == Cand(T_likes_pizza, preferences, 90)

L_up == Cand(T_pepperoni, preferences, 90)

\* A candidate at the gate, without a category
L_at == [fact |-> <<T_ab>>, category |-> <<>>, confidence |-> <<ConfidenceGate>>]

\* A candidate below the gate, and one without a confidence
L_low == Cand(T_cd, identity, 80)

L_def == [fact |-> <<T_bcde>>, category |-> <<identity>>, confidence |-> <<>>]

\* What the engines do with an utterance
LLMOutcomes == {Raises, Returns(<<>>), Returns(<<L_hi>>), Returns(<<L_def>>)}

PatternOutcomes ==
    {Raises, Returns(<<>>), Returns(<<L_up>>), Returns(<<L_low, L_at>>),
     Returns(<<L_hi, L_at>>)}

\* Whether the writes and the adds succeed: a failing write leaves no add to
\* fail, so at most one of them fails during a call
Faults ==
    {<<TRUE, TRUE>>, <<FALSE, TRUE>>} \cup
    (IF retriever THEN {<<TRUE, FALSE>>} ELSE {})

NextLearn ==
    \/ \E llm \in LLMOutcomes, pattern \in PatternOutcomes, f \in Faults :
           BeginLearn(U_turn, <<llm, pattern>>, f[1], f[2])
    \/ learn_from_conversation

SpecLearn == Init /\ [][NextLearn]_vars

----------------------------------------------------------------------------
(* SpecContext: retrieval over a store that inserts, learned inserts and    *)
(* restarts change.                                                         *)

\* The facts of a file that an earlier session wrote: five manual inserts
PersistedPies ==
    [i \in 1..Len(PieTexts) |-> fact_entry(PieTexts[i], user_specified, <<>>, 0)]

\* The manual inserts of the retrieval scenarios
ContextInserts == {<<F_pizza, preferences>>, <<F_pasta, preferences>>}

\* What the engines return in the retrieval scenarios
ContextOutcomes ==
    {<<Returns(<<>>), Returns(<<Cand(F_born, identity, 90)>>)>>}

\* The queries of the retrieval scenarios
ContextQueries == {Q_pizza, <<>>}

\* What the semantic search may do during a call
SemanticChoices ==
    IF retriever THEN SemanticOutcomes(index, SemanticLimit)
    ELSE {[raises |-> FALSE, order |-> <<>>]}

\* ModularMemorySystem.__init__ on a data directory that is empty or holds
\* the file of an earlier session, whose timestamps are in the past
InitContext ==
    /\ file \in {<<>>, PersistedPies}
    /\ facts = file
    /\ now = 1
    /\ index = <<>>
    /\ retriever \in BOOLEAN
    /\ stats = [total_learned |-> 0, by_category |-> EmptyDict,
                by_engine |-> EmptyDict]
    /\ turn = <<>>
    /\ last = NoCall
    /\ loaded = "facts"
    /\ reply = "none"
    /\ calls = NoCalls
    /\ exported = <<>>

NextContext ==
    \/ \E ins \in ContextInserts : remember_fact_manually(ins[1], ins[2], TRUE)
    \/ \E outcomes \in ContextOutcomes : BeginLearn(U_turn, outcomes, TRUE, TRUE)
    \/ learn_from_conversation
    \/ \E query \in ContextQueries, sem \in SemanticChoices, writeOk \in BOOLEAN :
           get_context_for_query(query, sem, writeOk)
    \/ \E loadOk \in BOOLEAN : Restart(loadOk)

SpecContext == InitContext /\ [][NextContext]_vars

----------------------------------------------------------------------------
(* The learning engines: LLMBasedLearning and PatternBasedLearning.         *)

\* self.ignore_phrases of LLMBasedLearning
ignore_phrases ==
    {<<"i", "'", "m", Space, "f", "i", "n", "e">>,    \* "i'm fine"
     <<"i", "'", "m", Space, "o", "k", "a", "y">>,    \* "i'm okay"
     <<"i", "'", "m", Space, "g", "o", "o", "d">>,    \* "i'm good"
     <<"i", "'", "m", Space, "a", "l", "r", "i", "g", "h", "t">>,    \* "i'm alright"
     <<"s", "o", "u", "n", "d", "s", Space, "g", "o", "o", "d">>,    \* "sounds good"
     <<"t", "h", "a", "t", "'", "s", Space, "f", "i", "n", "e">>,    \* "that's fine"
     <<"n", "o", Space, "p", "r", "o", "b", "l", "e", "m">>,    \* "no problem"
     <<"s", "u", "r", "e">>,    \* "sure"
     <<"y", "e", "s">>,    \* "yes"
     <<"n", "o">>,    \* "no"
     <<"m", "a", "y", "b", "e">>,    \* "maybe"
     <<"t", "h", "a", "n", "k", "s">>,    \* "thanks"
     <<"t", "h", "a", "n", "k", Space, "y", "o", "u">>,    \* "thank you"
     <<"o", "k", "a", "y">>,    \* "okay"
     <<"o", "k">>,    \* "ok"
     <<"c", "o", "o", "l">>,    \* "cool"
     <<"n", "i", "c", "e">>,    \* "nice"
     <<"g", "r", "e", "a", "t">>,    \* "great"
     <<"i", Space, "s", "e", "e">>,    \* "i see"
     <<"g", "o", "t", Space, "i", "t">>,    \* "got it"
     <<"u", "n", "d", "e", "r", "s", "t", "o", "o", "d">>,    \* "understood"
     <<"a", "l", "r", "i", "g", "h", "t">>}    \* "alright"

\* trivial of PatternBasedLearning.extract_facts
trivial ==
    {<<"i", "'", "m", Space, "f", "i", "n", "e">>,    \* "i'm fine"
     <<"i", "'", "m", Space, "o", "k", "a", "y">>,    \* "i'm okay"
     <<"i", "'", "m", Space, "g", "o", "o", "d">>,    \* "i'm good"
     <<"i", "'", "m", Space, "a", "l", "r", "i", "g", "h", "t">>,    \* "i'm alright"
     <<"s", "o", "u", "n", "d", "s", Space, "g", "o", "o", "d">>,    \* "sounds good"
     <<"t", "h", "a", "t", "'", "s", Space, "f", "i", "n", "e">>,    \* "that's fine"
     <<"n", "o", Space, "p", "r", "o", "b", "l", "e", "m">>,    \* "no problem"
     <<"s", "u", "r", "e">>,    \* "sure"
     <<"y", "e", "s">>,    \* "yes"
     <<"n", "o">>,    \* "no"
     <<"m", "a", "y", "b", "e">>,    \* "maybe"
     <<"t", "h", "a", "n", "k", "s">>,    \* "thanks"
     <<"o", "k", "a", "y">>,    \* "okay"
     <<"o", "k">>,    \* "ok"
     <<"c", "o", "o", "l">>}    \* "cool"

\* The question words of LLMBasedLearning.extract_facts
LLMQuestionWords ==
    {<<"w", "h", "a", "t">>,    \* "what"
     <<"w", "h", "e", "r", "e">>,    \* "where"
     <<"w", "h", "e", "n">>,    \* "when"
     <<"w", "h", "o">>,    \* "who"
     <<"w", "h", "y">>,    \* "why"
     <<"h", "o", "w">>,    \* "how"
     <<"i", "s">>,    \* "is"
     <<"a", "r", "e">>,    \* "are"
     <<"d", "o">>,    \* "do"
     <<"d", "o", "e", "s">>,    \* "does"
     <<"c", "a", "n">>,    \* "can"
     <<"c", "o", "u", "l", "d">>,    \* "could"
     <<"w", "o", "u", "l", "d">>}    \* "would"

\* The question words of PatternBasedLearning.extract_facts
PatternQuestionWords ==
    {<<"w", "h", "a", "t">>,    \* "what"
     <<"w", "h", "e", "r", "e">>,    \* "where"
     <<"w", "h", "e", "n">>,    \* "when"
     <<"w", "h", "o">>,    \* "who"
     <<"w", "h", "y">>,    \* "why"
     <<"h", "o", "w">>,    \* "how"
     <<"i", "s">>,    \* "is"
     <<"a", "r", "e">>,    \* "are"
     <<"d", "o">>,    \* "do"
     <<"d", "o", "e", "s">>}    \* "does"

\* str.startswith(prefix)
startswith(s, prefix) ==
    Len(prefix) <= Len(s) /\ SubSeq(s, 1, Len(prefix)) = prefix

\* len(str.split()): the number of maximal runs of characters that are not
\* whitespace
word_count(s) ==
    Cardinality({i \in 1..Len(s) :
        s[i] \notin Whitespace /\ (i = 1 \/ s[i - 1] \in Whitespace)})

MinConfidence == 85     \* `if confidence < 0.85` of LLMBasedLearning
NaN == -1               \* float('nan'), which json.loads makes of NaN

\* x < bound on floats: a NaN is below nothing
below(x, bound) == x # NaN /\ x < bound
MinFactLen == 10        \* `if len(fact_text) < 10`
MinWords == 3           \* `if len(text.split()) < 3`

\* The loop `for f in facts` of LLMBasedLearning.extract_facts: the candidates
\* of the model's answer that are kept
RECURSIVE valid_facts(_)
valid_facts(cands) ==
    IF cands = <<>> THEN <<>>
    ELSE (IF \/ below(Get(Head(cands).confidence, 0), MinConfidence)
             \/ \E phrase \in ignore_phrases :
                    contains(lower(strip(Get(Head(cands).fact, <<>>))), phrase)
             \/ Len(strip(Get(Head(cands).fact, <<>>))) < MinFactLen
          THEN <<>> ELSE <<Head(cands)>>)
         \o valid_facts(Tail(cands))

\* The early returns of LLMBasedLearning.extract_facts: too short, a trivial
\* response, a question
llm_skips(text) ==
    \/ word_count(text) < MinWords
    \/ \E phrase \in ignore_phrases : contains(strip(lower(text)), phrase)
    \/ \E q \in LLMQuestionWords : startswith(strip(lower(text)), q)

\* LLMBasedLearning.extract_facts(text) when self.llm.generate answers with
\* response: response.kind is "list" when the answer holds a JSON list, whose
\* objects are response.facts; any other answer ("text", no list in it or
\* one that does not parse) and an exception ("raises") come to []
LLMBasedLearning_extract_facts(text, response) ==
    IF llm_skips(text) THEN <<>>
    ELSE IF response.kind # "list" THEN <<>>
    ELSE valid_facts(response.facts)

\* The character classes of the patterns, under re.IGNORECASE
IsDigit(c) == c \in {"0", "1", "2", "3", "4", "5", "6", "7", "8", "9"}

IsSentenceEnd(c) == c \in {".", "!", "?", ","}

\* The length of the longest run of letters, of digits, of whitespace, of
\* letters and whitespace ([a-z\s]) and of [^.!?,] that starts at position i
letters(s, i) ==
    Cardinality({n \in 1..(Len(s) - i + 1) :
        \A k \in 0..(n - 1) : IsLetter(s[i + k])})

digits(s, i) ==
    Cardinality({n \in 1..(Len(s) - i + 1) :
        \A k \in 0..(n - 1) : IsDigit(s[i + k])})

spaces(s, i) ==
    Cardinality({n \in 1..(Len(s) - i + 1) :
        \A k \in 0..(n - 1) : s[i + k] \in Whitespace})

letters_and_spaces(s, i) ==
    Cardinality({n \in 1..(Len(s) - i + 1) :
        \A k \in 0..(n - 1) : IsLetter(s[i + k]) \/ s[i + k] \in Whitespace})

no_sentence_end(s, i) ==
    Cardinality({n \in 1..(Len(s) - i + 1) :
        \A k \in 0..(n - 1) : ~IsSentenceEnd(s[i + k])})

\* s has the characters of lit, in any letter case, from position i on
at(s, i, lit) ==
    /\ i + Len(lit) - 1 <= Len(s)
    /\ lower(SubSeq(s, i, i + Len(lit) - 1)) = lit

\* re.search(pattern, text, re.IGNORECASE).group(1) for the pattern that
\* M matches at a position: <<group>> for the leftmost match, <<>> for none
search(M(_, _), text) ==
    LET hits == {i \in 1..Len(text) : M(text, i) # <<>>}
    IN  IF hits = {} THEN <<>> ELSE M(text, First(hits))

\* [A-Z][a-z]+ \d{1,2},? \d{4} from position j: the position of its last
\* character, 0 when it does not match
date_with_year(s, j) ==
    LET n == letters(s, j)
        d == digits(s, j + n + 1)
        p == j + n + 1 + d
        q == IF p <= Len(s) /\ s[p] = "," THEN p + 1 ELSE p
    IN  IF /\ n >= 2 /\ j + n <= Len(s) /\ s[j + n] = Space
           /\ d \in {1, 2}
           /\ q <= Len(s) /\ s[q] = Space
           /\ digits(s, q + 1) >= 4
        THEN q + 4 ELSE 0

\* [A-Z][a-z]+ \d{1,2} from position j
date_without_year(s, j) ==
    LET n == letters(s, j)
        d == digits(s, j + n + 1)
    IN  IF n >= 2 /\ j + n <= Len(s) /\ s[j + n] = Space /\ d >= 1
        THEN j + n + Min(d, 2) ELSE 0

\* [A-Z][a-z]+(?:\s+[A-Z][a-z]+)? from position j
one_or_two_words(s, j) ==
    LET n == letters(s, j)
        w == spaces(s, j + n)
        m == letters(s, j + n + w)
    IN  IF n < 2 THEN 0
        ELSE IF w >= 1 /\ m >= 2 THEN j + n + w + m - 1
        ELSE j + n - 1

\* The group from position j to position end, when there is a match
group(s, j, end) == IF end = 0 THEN <<>> ELSE <<SubSeq(s, j, end)>>

\* "my birthday is "
my_birthday_is ==
    <<"m", "y", Space, "b", "i", "r", "t", "h", "d", "a", "y", Space, "i",
      "s", Space>>

\* "i was born "
i_was_born == <<"i", Space, "w", "a", "s", Space, "b", "o", "r", "n", Space>>

\* "on "
on_ == <<"o", "n", Space>>

\* "my "
my_ == <<"m", "y", Space>>

\* "dog"
w_dog == <<"d", "o", "g">>

\* "cat"
w_cat == <<"c", "a", "t">>

\* "pet"
w_pet == <<"p", "e", "t">>

\* "'s birthday is "
s_birthday_is ==
    <<"'", "s", Space, "b", "i", "r", "t", "h", "d", "a", "y", Space, "i",
      "s", Space>>

\* " birthday is "
birthday_is ==
    <<Space, "b", "i", "r", "t", "h", "d", "a", "y", Space, "i", "s", Space>>

\* "my name is"
my_name_is == <<"m", "y", Space, "n", "a", "m", "e", Space, "i", "s">>

\* "i'm"
i_m == <<"i", "'", "m">>

\* "i am"
i_am == <<"i", Space, "a", "m">>

\* "call me"
call_me == <<"c", "a", "l", "l", Space, "m", "e">>

\* "i live in "
i_live_in == <<"i", Space, "l", "i", "v", "e", Space, "i", "n", Space>>

\* "i'm from "
i_m_from == <<"i", "'", "m", Space, "f", "r", "o", "m", Space>>

\* "i "
i_ == <<"i", Space>>

\* "really love"
really_love == <<"r", "e", "a", "l", "l", "y", Space, "l", "o", "v", "e">>

\* "absolutely love"
absolutely_love ==
    <<"a", "b", "s", "o", "l", "u", "t", "e", "l", "y", Space, "l", "o", "v",
      "e">>

\* "love"
w_love == <<"l", "o", "v", "e">>

\* "my favorite"
my_favorite == <<"m", "y", Space, "f", "a", "v", "o", "r", "i", "t", "e">>

\* "food"
w_food == <<"f", "o", "o", "d">>

\* "game"
w_game == <<"g", "a", "m", "e">>

\* "movie"
movie == <<"m", "o", "v", "i", "e">>

\* "book"
book == <<"b", "o", "o", "k">>

\* "color"
color == <<"c", "o", "l", "o", "r">>

\* "is"
w_is == <<"i", "s">>

\* "User's birthday is "
Users_birthday_is ==
    <<"U", "s", "e", "r", "'", "s", Space, "b", "i", "r", "t", "h", "d", "a",
      "y", Space, "i", "s", Space>>

\* "User's pet's birthday is "
Users_pets_birthday_is ==
    <<"U", "s", "e", "r", "'", "s", Space, "p", "e", "t", "'", "s", Space,
      "b", "i", "r", "t", "h", "d", "a", "y", Space, "i", "s", Space>>

\* "User's name is "
Users_name_is ==
    <<"U", "s", "e", "r", "'", "s", Space, "n", "a", "m", "e", Space, "i",
      "s", Space>>

\* "User lives in "
User_lives_in ==
    <<"U", "s", "e", "r", Space, "l", "i", "v", "e", "s", Space, "i", "n",
      Space>>

\* "User is from "
User_is_from ==
    <<"U", "s", "e", "r", Space, "i", "s", Space, "f", "r", "o", "m", Space>>

\* "User loves "
User_loves == <<"U", "s", "e", "r", Space, "l", "o", "v", "e", "s", Space>>

\* "User's favorite is "
Users_favorite_is ==
    <<"U", "s", "e", "r", "'", "s", Space, "f", "a", "v", "o", "r", "i", "t",
      "e", Space, "i", "s", Space>>

\* "Fine"
Fine == <<"F", "i", "n", "e">>

\* "Okay"
Okay == <<"O", "k", "a", "y">>

\* "Good"
Good == <<"G", "o", "o", "d">>

\* "Alright"
Alright == <<"A", "l", "r", "i", "g", "h", "t">>

\* The candidate that a pattern makes of the group it found, if any:
\* fact_template.format(group.strip())
fact_of(found, fact_template, category, confidence) ==
    IF found = <<>> THEN <<>>
    ELSE <<Cand(fact_template \o strip(found[1]), category, confidence)>>

\* r"my birthday is ([A-Z][a-z]+ \d{1,2},? \d{4})" at position i
own_birthday_at(text, i) ==
    IF at(text, i, my_birthday_is)
    THEN group(text, i + Len(my_birthday_is),
               date_with_year(text, i + Len(my_birthday_is)))
    ELSE <<>>

\* r"i was born (?:on )?([A-Z][a-z]+ \d{1,2},? \d{4})" at position i
born_at(text, i) ==
    LET j == i + Len(i_was_born)
    IN  IF ~at(text, i, i_was_born) THEN <<>>
        ELSE IF at(text, j, on_) /\ date_with_year(text, j + Len(on_)) # 0
        THEN group(text, j + Len(on_), date_with_year(text, j + Len(on_)))
        ELSE group(text, j, date_with_year(text, j))

\* r"my (?:dog|cat|pet)(?:'s)? birthday is ([A-Z][a-z]+ \d{1,2})" at
\* position i
pet_birthday_at(text, i) ==
    LET j == i + Len(my_) + Len(w_pet)
    IN  IF ~(/\ at(text, i, my_)
             /\ \E p \in {w_dog, w_cat, w_pet} : at(text, i + Len(my_), p))
        THEN <<>>
        ELSE IF at(text, j, s_birthday_is)
        THEN group(text, j + Len(s_birthday_is),
                   date_without_year(text, j + Len(s_birthday_is)))
        ELSE IF at(text, j, birthday_is)
        THEN group(text, j + Len(birthday_is),
                   date_without_year(text, j + Len(birthday_is)))
        ELSE <<>>

\* The birthday patterns, in their order
birthday_facts(text) ==
    fact_of(search(own_birthday_at, text), Users_birthday_is, identity, 95)
    \o fact_of(search(born_at, text), Users_birthday_is, identity, 95)
    \o fact_of(search(pet_birthday_at, text), Users_pets_birthday_is,
               relationships, 90)

\* r"(?:my name is|i'm|i am|call me)\s+([A-Z][a-z]+)" at position i
name_at(text, i) ==
    LET alts == {alt \in {my_name_is, i_m, i_am, call_me} : at(text, i, alt)}
        j == i + Len(CHOOSE alt \in alts : TRUE)
        w == spaces(text, j)
        n == letters(text, j + w)
    IN  IF alts # {} /\ w >= 1 /\ n >= 2
        THEN <<SubSeq(text, j + w, j + w + n - 1)>>
        ELSE <<>>

\* The name pattern; "I'm Fine" is no name
name_facts(text) ==
    IF \E name \in {Fine, Okay, Good, Alright} :
           search(name_at, text) = <<name>>
    THEN <<>>
    ELSE fact_of(search(name_at, text), Users_name_is, identity, 90)

\* r"i live in ([A-Z][a-z]+(?:\s+[A-Z][a-z]+)?)" at position i
live_at(text, i) ==
    IF at(text, i, i_live_in)
    THEN group(text, i + Len(i_live_in),
               one_or_two_words(text, i + Len(i_live_in)))
    ELSE <<>>

\* r"i'm from ([A-Z][a-z]+(?:\s+[A-Z][a-z]+)?)" at position i
from_at(text, i) ==
    IF at(text, i, i_m_from)
    THEN group(text, i + Len(i_m_from),
               one_or_two_words(text, i + Len(i_m_from)))
    ELSE <<>>

\* The location patterns, in their order
location_facts(text) ==
    fact_of(search(live_at, text), User_lives_in, identity, 88)
    \o fact_of(search(from_at, text), User_is_from, identity, 88)

\* r"i (?:really love|absolutely love|love)\s+([a-z\s]{3,30})(?:\.|!|,)" at
\* position i; the whitespace that \s+ has taken goes to the group, one
\* character at a time, until the group has its 3 characters
loves_at(text, i) ==
    LET alts == {alt \in {really_love, absolutely_love, w_love} :
                    at(text, i + Len(i_), alt)}
        j == i + Len(i_) + Len(CHOOSE alt \in alts : TRUE)
        w == spaces(text, j)
        r == letters_and_spaces(text, j + w)
        back == {k \in 0..(w - 1) : r + k >= 3 /\ r + k <= 30}
    IN  IF /\ at(text, i, i_) /\ alts # {} /\ w >= 1 /\ back # {}
           /\ j + w + r <= Len(text)
           /\ text[j + w + r] \in {".", "!", ","}
        THEN <<SubSeq(text, j + w - First(back), j + w + r - 1)>>
        ELSE <<>>

\* r"my favorite\s+(?:food|game|movie|book|color)\s+is\s+([^.!?,]+)" at
\* position i; when nothing but a sentence end follows the whitespace, the
\* last character of the whitespace is the group
favorite_at(text, i) ==
    LET j1 == i + Len(my_favorite)
        w1 == spaces(text, j1)
        kinds == {kind \in {w_food, w_game, movie, book, color} :
                     at(text, j1 + w1, kind)}
        j2 == j1 + w1 + Len(CHOOSE kind \in kinds : TRUE)
        w2 == spaces(text, j2)
        j3 == j2 + w2 + Len(w_is)
        w3 == spaces(text, j3)
        r == no_sentence_end(text, j3 + w3)
    IN  IF ~(/\ at(text, i, my_favorite) /\ w1 >= 1 /\ kinds # {}
             /\ w2 >= 1 /\ at(text, j2 + w2, w_is) /\ w3 >= 1)
        THEN <<>>
        ELSE IF r >= 1 THEN <<SubSeq(text, j3 + w3, j3 + w3 + r - 1)>>
        ELSE IF w3 >= 2 THEN <<SubSeq(text, j3 + w3 - 1, j3 + w3 - 1)>>
        ELSE <<>>

\* `if len(thing) > 3 and thing not in trivial`
substantial(found) ==
    IF found # <<>> /\ Len(strip(found[1])) > 3 /\ strip(found[1]) \notin trivial
    THEN found ELSE <<>>

\* The preference patterns, in their order
preference_facts(text) ==
    fact_of(substantial(search(loves_at, text)), User_loves, preferences, 88)
    \o fact_of(substantial(search(favorite_at, text)), Users_favorite_is,
               preferences, 92)

\* The early returns mutated: a trivial response is no longer skipped.
PatternSkipsQuestionsOnly(text) ==
    \E q \in PatternQuestionWords : startswith(strip(lower(text)), q)

\* The early returns of PatternBasedLearning.extract_facts: a trivial
\* response, a question
pattern_skips(text) ==
    \/ \E phrase \in trivial : contains(lower(text), phrase)
    \/ \E q \in PatternQuestionWords : startswith(strip(lower(text)), q)

\* PatternBasedLearning.extract_facts(text)
PatternBasedLearning_extract_facts(text) ==
    IF pattern_skips(text) THEN <<>>
    ELSE birthday_facts(text) \o name_facts(text) \o location_facts(text)
         \o preference_facts(text)

----------------------------------------------------------------------------
(* SpecChat: chat turns whose learn step runs the two engines on what the   *)
(* user said and on what the completion service answers.                    *)

\* What self.llm.generate does with the prompt: it answers with a text that
\* holds no JSON list, it raises, it never returns, or it answers with a JSON
\* list of objects
NoList == [kind |-> "text", facts |-> <<>>]

Fails == [kind |-> "raises", facts |-> <<>>]

NeverAnswers == [kind |-> "hangs", facts |-> <<>>]

Lists(cands) == [kind |-> "list", facts |-> cands]

\* The answers of the model: the two examples of the prompt, and an object
\* with a category that is not in the prompt's list and a confidence of 1.5
Responses ==
    {NoList, Fails, NeverAnswers,
     Lists(<<Cand(F_user_birthday, identity, 95)>>),
     Lists(<<Cand(F_dog_birthday, relationships, 90)>>),
     Lists(<<Cand(F_chess, hobbies, 150)>>)}

\* What the call of LLMBasedLearning.extract_facts comes to: the call of
\* self.llm.generate has no timeout, so that the engine returns when the
\* completion service does
llm_outcome(text, response) ==
    IF ~llm_skips(text) /\ response.kind = "hangs" THEN Hangs
    ELSE Returns(LLMBasedLearning_extract_facts(text, response))

\* The candidates of PatternBasedLearning for each utterance of the model
\* (computed once)
Extracted ==
    {p : p \in {<<text, PatternBasedLearning_extract_facts(text)>> :
                    text \in Utterances \cup FilterUtterances}}

pattern_outcome(text) == Returns((CHOOSE p \in Extracted : p[1] = text)[2])

\* What the engines of self.learning_engines do with user_message
engine_outcomes(user_message, response) ==
    <<llm_outcome(user_message, response), pattern_outcome(user_message)>>

NextChat ==
    \/ \E user_input \in Utterances, response \in Responses :
           BeginLearn(user_input, engine_outcomes(user_input, response),
                      TRUE, TRUE)
    \/ learn_from_conversation

SpecChat == InitStore /\ [][NextChat]_vars

\* SpecFilter: chat turns with utterances that the early returns of the
\* engines apply to
NextFilter ==
    \/ \E user_input \in FilterUtterances, response \in Responses :
           BeginLearn(user_input, engine_outcomes(user_input, response),
                      TRUE, TRUE)
    \/ learn_from_conversation

SpecFilter == InitStore /\ [][NextFilter]_vars

----------------------------------------------------------------------------
(* SpecLoad: the calls of a session that starts on any file.                *)

\* The file of an earlier session that made one manual insert
PersistedPizza == <<fact_entry(F_pizza, preferences, <<>>, 0)>>

\* What may be at the path of the fact file at startup
StartupFiles ==
    {[state |-> st, facts |-> <<>>] :
        st \in {"absent", "unreadable", "malformed", "no_facts", "not_dict"}}
    \cup {[state |-> "facts", facts |-> fs] : fs \in {<<>>, PersistedPizza}}

\* ModularMemorySystem.__init__ on a data directory with the file f
InitLoad ==
    \E f \in StartupFiles :
        /\ facts = _load(f).facts
        /\ loaded = _load(f).shape
        /\ file = f.facts
        /\ now = 1
        /\ index = <<>>
        /\ retriever \in BOOLEAN
        /\ stats = [total_learned |-> 0, by_category |-> EmptyDict,
                    by_engine |-> EmptyDict]
        /\ turn = <<>>
        /\ last = NoCall
        /\ reply = "none"
        /\ calls = NoCalls
        /\ exported = <<>>

NextLoad ==
    \/ \E ins \in ContextInserts : remember_fact_manually(ins[1], ins[2], TRUE)
    \/ \E outcomes \in ContextOutcomes : BeginLearn(U_turn, outcomes, TRUE, TRUE)
    \/ learn_from_conversation
    \/ \E query \in ContextQueries, sem \in SemanticChoices :
           get_context_for_query(query, sem, TRUE)
    \/ get_stats

SpecLoad == InitLoad /\ [][NextLoad]_vars

----------------------------------------------------------------------------
(* SpecConcurrent: two chat turns insert into the empty store at the same   *)
(* time.                                                                    *)

\* The texts the two turns insert
ConcurrentTexts == {T_ab, T_Ab, T_abcd, T_cd}

NextConcurrent ==
    \E t \in Turns :
        \/ \E fact \in ConcurrentTexts : call_save_fact(t, fact, general)
        \/ save_fact_scan(t)
        \/ save_fact_update(t)
        \/ save_fact_append(t)
        \/ _save(t)

SpecConcurrent == InitStore /\ [][NextConcurrent]_vars

----------------------------------------------------------------------------
(* json.dump and json.load on the documents that the program writes, and    *)
(* export_training_data.                                                    *)

Quote == "\""

Backslash == "\\"

\* The values that the program hands to json.dump: str, int, float (in
\* hundredths), None, list, and dict as the list of its items in the order of
\* insertion
PyStr(s) == <<"str", s>>

PyInt(n) == <<"int", n>>

PyFloat(h) == <<"float", h>>

PyNone == <<"null">>

PyList(xs) == <<"list", xs>>

PyDict(items) == <<"dict", items>>

DigitChars == <<"0", "1", "2", "3", "4", "5", "6", "7", "8", "9">>

\* int.__repr__
RECURSIVE int_repr(_)
int_repr(n) ==
    IF n < 10 THEN <<DigitChars[n + 1]>>
    ELSE int_repr(n \div 10) \o <<DigitChars[(n % 10) + 1]>>

\* float.__repr__ of h hundredths: "0.95", "0.9", "1.5", "1.0"
float_repr(h) ==
    int_repr(h \div 100) \o <<".">> \o
        (IF h % 10 = 0 THEN <<DigitChars[((h % 100) \div 10) + 1]>>
         ELSE <<DigitChars[((h % 100) \div 10) + 1], DigitChars[(h % 10) + 1]>>)

\* escaped mutated: no character is escaped.
EscapedNever(c) == <<c>>

\* json.encoder: the escape of one character of a string
escaped(c) ==
    IF c = Quote THEN <<Backslash, Quote>>
    ELSE IF c = Backslash THEN <<Backslash, Backslash>>
    ELSE IF c = "\n" THEN <<Backslash, "n">>
    ELSE IF c = "\t" THEN <<Backslash, "t">>
    ELSE <<c>>

\* json.encoder.encode_basestring_ascii, without the quotes around it: the
\* escapes of the characters of s one after the other (s is taken by halves)
RECURSIVE encode_basestring(_)
encode_basestring(s) ==
    IF s = <<>> THEN <<>>
    ELSE IF Len(s) = 1 THEN escaped(s[1])
    ELSE encode_basestring(SubSeq(s, 1, Len(s) \div 2))
             \o encode_basestring(SubSeq(s, (Len(s) \div 2) + 1, Len(s)))

\* The newline and the indent of json.dump(..., indent=2) at a level
newline_indent(level) == <<"\n">> \o [k \in 1..(2 * level) |-> Space]

\* json.encoder._make_iterencode with indent 2: the text of the value o
RECURSIVE iterencode(_, _)
RECURSIVE iterencode_list(_, _, _)
RECURSIVE iterencode_dict(_, _, _)
iterencode(o, level) ==
    IF o[1] = "str" THEN <<Quote>> \o encode_basestring(o[2]) \o <<Quote>>
    ELSE IF o[1] = "null" THEN <<"n", "u", "l", "l">>
    ELSE IF o[1] = "int" THEN int_repr(o[2])
    ELSE IF o[1] = "float" THEN float_repr(o[2])
    ELSE IF o[1] = "list"
    THEN IF o[2] = <<>> THEN <<"[", "]">>
         ELSE <<"[">> \o iterencode_list(o[2], 1, level + 1)
                  \o newline_indent(level) \o <<"]">>
    ELSE IF o[2] = <<>> THEN <<"{", "}">>
         ELSE <<"{">> \o iterencode_dict(o[2], 1, level + 1)
                  \o newline_indent(level) \o <<"}">>

\* The items of the list from the k-th on
iterencode_list(xs, k, level) ==
    IF k > Len(xs) THEN <<>>
    ELSE (IF k > 1 THEN <<",">> ELSE <<>>) \o newline_indent(level)
             \o iterencode(xs[k], level) \o iterencode_list(xs, k + 1, level)

\* The items of the dict from the k-th on
iterencode_dict(items, k, level) ==
    IF k > Len(items) THEN <<>>
    ELSE (IF k > 1 THEN <<",">> ELSE <<>>) \o newline_indent(level)
             \o <<Quote>> \o encode_basestring(items[k][1]) \o <<Quote>>
             \o <<":", Space>> \o iterencode(items[k][2], level)
             \o iterencode_dict(items, k + 1, level)

\* json.dumps(o, indent=2)
dumps(o) == iterencode(o, 0)

\* The one element of a set of one element (the set binds a value that was
\* computed once)
Only(S) == CHOOSE x \in S : TRUE

\* What the decoder returns for a text that is no JSON (it raises)
NoJSON == <<>>

\* The position of the first character at or after i that is no whitespace
RECURSIVE skip_whitespace(_, _)
skip_whitespace(text, i) ==
    IF i <= Len(text) /\ text[i] \in Whitespace
    THEN skip_whitespace(text, i + 1)
    ELSE i

\* json.decoder: the character that an escape stands for
unescaped(c) == IF c = "n" THEN "\n" ELSE IF c = "t" THEN "\t" ELSE c

\* The number of backslashes that stand right before position j, in a string
\* whose first character is at position i
RECURSIVE backslashes_before(_, _, _)
backslashes_before(text, i, j) ==
    IF j - 1 < i \/ text[j - 1] # Backslash THEN 0
    ELSE 1 + backslashes_before(text, i, j - 1)

\* The character at position j follows the backslash of an escape
is_escaped(text, i, j) == backslashes_before(text, i, j) % 2 = 1

\* The position of the quote that ends the string whose first character is
\* at position i: the first quote that no backslash escapes, looked for at
\* and after position from in stretches of growing width (0 for none)
RECURSIVE string_end(_, _, _, _)
string_end(text, i, from, width) ==
    IF from > Len(text) THEN 0
    ELSE IF \E j \in from..Min(from + width - 1, Len(text)) :
                text[j] = Quote /\ ~is_escaped(text, i, j)
    THEN CHOOSE j \in from..Min(from + width - 1, Len(text)) :
             /\ text[j] = Quote /\ ~is_escaped(text, i, j)
             /\ \A k \in from..(j - 1) :
                    ~(text[k] = Quote /\ ~is_escaped(text, i, k))
    ELSE string_end(text, i, from + width, 2 * width)

\* The characters that the escaped characters from position lo to position
\* hi stand for, in a string whose first character is at position i (taken
\* by halves)
RECURSIVE unescape(_, _, _, _)
unescape(text, i, lo, hi) ==
    IF lo > hi THEN <<>>
    ELSE IF lo = hi
    THEN IF is_escaped(text, i, lo) THEN <<unescaped(text[lo])>>
         ELSE IF text[lo] = Backslash THEN <<>>
         ELSE <<text[lo]>>
    ELSE unescape(text, i, lo, (lo + hi) \div 2)
             \o unescape(text, i, ((lo + hi) \div 2) + 1, hi)

\* json.decoder.py_scanstring from position i, after the opening quote:
\* <<the string, the position after its closing quote>>
scanstring_to(text, i, end) ==
    IF end = 0 THEN NoJSON ELSE <<unescape(text, i, i, end - 1), end + 1>>

scanstring(text, i) ==
    Only({scanstring_to(text, i, end) : end \in {string_end(text, i, i, 1)}})

\* The position after the digits that begin at position i
RECURSIVE digits_end(_, _)
digits_end(text, i) ==
    IF i <= Len(text) /\ IsDigit(text[i]) THEN digits_end(text, i + 1) ELSE i

\* int() of the n digits of text from position i
RECURSIVE int_of(_, _, _)
int_of(text, i, n) ==
    IF n = 0 THEN 0
    ELSE int_of(text, i, n - 1) * 10
             + ((CHOOSE v \in 1..10 : DigitChars[v] = text[i + n - 1]) - 1)

\* json.scanner NUMBER_RE at position i: an int, or a float of one or two
\* decimals (in hundredths)
scan_number(text, i) ==
    LET n == digits_end(text, i) - i
        dot == i + n <= Len(text) /\ text[i + n] = "."
        m == IF dot THEN digits_end(text, i + n + 1) - (i + n + 1) ELSE 0
    IN  IF ~dot THEN <<PyInt(int_of(text, i, n)), i + n>>
        ELSE IF m = 1
        THEN <<PyFloat(int_of(text, i, n) * 100 + int_of(text, i + n + 1, 1) * 10),
               i + n + 2>>
        ELSE IF m = 2
        THEN <<PyFloat(int_of(text, i, n) * 100 + int_of(text, i + n + 1, 2)),
               i + n + 3>>
        ELSE NoJSON

\* json.scanner.py_make_scanner _scan_once, JSONArray and JSONObject:
\* <<the value at position i, the position after it>>
RECURSIVE scan_once(_, _)
RECURSIVE array_items(_, _, _)
RECURSIVE array_next(_, _, _)
RECURSIVE array_separator(_, _, _)
RECURSIVE object_items(_, _, _)
RECURSIVE object_colon(_, _, _)
RECURSIVE object_value(_, _, _, _)
RECURSIVE object_separator(_, _, _)
as_str(r) == IF r = NoJSON THEN NoJSON ELSE <<PyStr(r[1]), r[2]>>

scan_once(text, i) ==
    IF i > Len(text) THEN NoJSON
    ELSE IF text[i] = Quote
    THEN Only({as_str(r) : r \in {scanstring(text, i + 1)}})
    ELSE IF text[i] = "{"
    THEN IF skip_whitespace(text, i + 1) <= Len(text)
              /\ text[skip_whitespace(text, i + 1)] = "}"
         THEN <<PyDict(<<>>), skip_whitespace(text, i + 1) + 1>>
         ELSE object_items(text, skip_whitespace(text, i + 1), <<>>)
    ELSE IF text[i] = "["
    THEN IF skip_whitespace(text, i + 1) <= Len(text)
              /\ text[skip_whitespace(text, i + 1)] = "]"
         THEN <<PyList(<<>>), skip_whitespace(text, i + 1) + 1>>
         ELSE array_items(text, skip_whitespace(text, i + 1), <<>>)
    ELSE IF i + 3 <= Len(text) /\ SubSeq(text, i, i + 3) = <<"n", "u", "l", "l">>
    THEN <<PyNone, i + 4>>
    ELSE IF IsDigit(text[i]) THEN scan_number(text, i)
    ELSE IF i + 2 <= Len(text) /\ SubSeq(text, i, i + 2) = <<"N", "a", "N">>
    THEN <<PyFloat(NaN), i + 3>>
    ELSE NoJSON

\* JSONArray: the value at i, then "," or "]"
array_items(text, i, acc) ==
    Only({array_next(text, r, acc) : r \in {scan_once(text, i)}})

array_next(text, r, acc) ==
    IF r = NoJSON THEN NoJSON
    ELSE Only({array_separator(text, j, items) :
                  j \in {skip_whitespace(text, r[2])},
                  items \in {Append(acc, r[1])}})

array_separator(text, j, acc) ==
    IF j > Len(text) THEN NoJSON
    ELSE IF text[j] = "," THEN array_items(text, skip_whitespace(text, j + 1), acc)
    ELSE IF text[j] = "]" THEN <<PyList(acc), j + 1>>
    ELSE NoJSON

\* JSONObject: the key at i, ":", the value, then "," or "}"
object_items(text, i, acc) ==
    IF i > Len(text) \/ text[i] # Quote THEN NoJSON
    ELSE Only({object_colon(text, key, acc) :
                  key \in {scanstring(text, i + 1)}})

object_colon(text, key, acc) ==
    IF key = NoJSON THEN NoJSON
    ELSE IF skip_whitespace(text, key[2]) > Len(text)
            \/ text[skip_whitespace(text, key[2])] # ":"
    THEN NoJSON
    ELSE Only({object_value(text, key[1], r, acc) :
                  r \in {scan_once(text,
                             skip_whitespace(text,
                                 skip_whitespace(text, key[2]) + 1))}})

object_value(text, key, r, acc) ==
    IF r = NoJSON THEN NoJSON
    ELSE Only({object_separator(text, j, items) :
                  j \in {skip_whitespace(text, r[2])},
                  items \in {Append(acc, <<key, r[1]>>)}})

object_separator(text, j, acc) ==
    IF j > Len(text) THEN NoJSON
    ELSE IF text[j] = "," THEN object_items(text, skip_whitespace(text, j + 1), acc)
    ELSE IF text[j] = "}" THEN <<PyDict(acc), j + 1>>
    ELSE NoJSON

\* json.loads(text): <<the value>>, or NoJSON when the decoder raises
decoded(text, r) ==
    IF r = NoJSON \/ skip_whitespace(text, r[2]) <= Len(text) THEN NoJSON
    ELSE <<r[1]>>

loads(text) ==
    Only({decoded(text, r) : r \in {scan_once(text, skip_whitespace(text, 1))}})

\* d[key] of a parsed dict: <<the value>>, or <<>> when d is no dict or has
\* no such key
item(d, key) ==
    IF d[1] # "dict" THEN <<>>
    ELSE LET at_key == {k \in 1..Len(d[2]) : d[2][k][1] = key}
         IN  IF at_key = {} THEN <<>>
             ELSE <<d[2][CHOOSE k \in at_key : \A j \in at_key : j <= k][2]>>

\* "fact"
k_fact == <<"f", "a", "c", "t">>

\* "category"
k_category == <<"c", "a", "t", "e", "g", "o", "r", "y">>

\* "timestamp"
k_timestamp == <<"t", "i", "m", "e", "s", "t", "a", "m", "p">>

\* "access_count"
k_access_count ==
    <<"a", "c", "c", "e", "s", "s", "_", "c", "o", "u", "n", "t">>

\* "last_accessed"
k_last_accessed ==
    <<"l", "a", "s", "t", "_", "a", "c", "c", "e", "s", "s", "e", "d">>

\* "metadata"
k_metadata == <<"m", "e", "t", "a", "d", "a", "t", "a">>

\* "confidence"
k_confidence == <<"c", "o", "n", "f", "i", "d", "e", "n", "c", "e">>

\* "engine"
k_engine == <<"e", "n", "g", "i", "n", "e">>

\* "learned_from"
k_learned_from ==
    <<"l", "e", "a", "r", "n", "e", "d", "_", "f", "r", "o", "m">>

\* "exported"
k_exported == <<"e", "x", "p", "o", "r", "t", "e", "d">>

\* "total_facts"
k_total_facts == <<"t", "o", "t", "a", "l", "_", "f", "a", "c", "t", "s">>

\* "format"
k_format == <<"f", "o", "r", "m", "a", "t">>

\* "facts"
k_facts == <<"f", "a", "c", "t", "s">>

\* "jarvis_v1"
jarvis_v1 == <<"j", "a", "r", "v", "i", "s", "_", "v", "1">>

\* "LLMBasedLearning"
n_LLMBasedLearning ==
    <<"L", "L", "M", "B", "a", "s", "e", "d", "L", "e", "a", "r", "n", "i",
      "n", "g">>

\* "PatternBasedLearning"
n_PatternBasedLearning ==
    <<"P", "a", "t", "t", "e", "r", "n", "B", "a", "s", "e", "d", "L", "e",
      "a", "r", "n", "i", "n", "g">>

\* type(engine).__name__ as a string of characters
EngineNames ==
    [LLMBasedLearning |-> n_LLMBasedLearning,
     PatternBasedLearning |-> n_PatternBasedLearning]

\* datetime.isoformat() of a reading of the clock
isoformat(t) == int_repr(t)

\* The metadata dict of a stored fact: {} of a manual insert, or the dict
\* that learn_from_conversation made
metadata_dict(metadata) ==
    IF metadata = <<>> THEN PyDict(<<>>)
    ELSE PyDict(<<<<k_confidence, PyFloat(metadata[1].confidence)>>,
                <<k_engine, PyStr(EngineNames[metadata[1].engine])>>,
                <<k_learned_from, PyStr(metadata[1].learned_from)>>>>)

\* The dict of a stored fact (fact_entry of save_fact)
fact_dict(f) ==
    PyDict(<<<<k_fact, PyStr(f.fact)>>,
           <<k_category, PyStr(f.category)>>,
           <<k_timestamp, PyStr(isoformat(f.timestamp))>>,
           <<k_access_count, PyInt(f.access_count)>>,
           <<k_last_accessed,
             IF f.last_accessed = <<>> THEN PyNone
             ELSE PyStr(isoformat(f.last_accessed[1]))>>,
           <<k_metadata, metadata_dict(f.metadata)>>>>)

fact_dicts(fs) == PyList([i \in 1..Len(fs) |-> fact_dict(fs[i])])

\* training_data of export_training_data at clock reading t
training_data(all_facts, t) ==
    PyDict(<<<<k_metadata,
             PyDict(<<<<k_exported, PyStr(isoformat(t))>>,
                    <<k_total_facts, PyInt(Len(all_facts))>>,
                    <<k_format, PyStr(jarvis_v1)>>>>)>>,
           <<k_facts, fact_dicts(all_facts)>>>>)

\* export_training_data(filepath); writeOk: whether filepath can be opened
\* for writing (open raises otherwise and filepath stays as it was)
export_training_data(writeOk) ==
    /\ turn = <<>>
    /\ IF loaded # "facts"
       THEN \* self.data['facts'] raises
            /\ last' = [NoCall EXCEPT !.op = "export", !.ok = FALSE]
            /\ exported' = exported
       ELSE IF ~writeOk
       THEN /\ last' = [NoCall EXCEPT !.op = "export", !.ok = FALSE]
            /\ exported' = exported
       ELSE /\ last' = [NoCall EXCEPT !.op = "export",
                                      !.count = Len(get_all_facts(facts))]
            /\ exported' = dumps(training_data(get_all_facts(facts), now))
    /\ reply' = "none"
    /\ UNCHANGED <<facts, file, now, index, retriever, stats, turn, loaded,
                   calls>>

----------------------------------------------------------------------------
(* LLMBasedLearning.extract_facts on the text that the completion service   *)
(* answers with.                                                            *)

\* "[{"fact": "User plays chess daily", "category": "interests", "confidence": 0.9}]"
R_good ==
    <<"[", "{", Quote, "f", "a", "c", "t", Quote, ":", Space, Quote, "U",
      "s", "e", "r", Space, "p", "l", "a", "y", "s", Space, "c", "h", "e",
      "s", "s", Space, "d", "a", "i", "l", "y", Quote, ",", Space, Quote,
      "c", "a", "t", "e", "g", "o", "r", "y", Quote, ":", Space, Quote, "i",
      "n", "t", "e", "r", "e", "s", "t", "s", Quote, ",", Space, Quote, "c",
      "o", "n", "f", "i", "d", "e", "n", "c", "e", Quote, ":", Space, "0",
      ".", "9", "}", "]">>

\* "[{"fact": "User plays chess daily", "confidence": NaN}]"
R_nan ==
    <<"[", "{", Quote, "f", "a", "c", "t", Quote, ":", Space, Quote, "U",
      "s", "e", "r", Space, "p", "l", "a", "y", "s", Space, "c", "h", "e",
      "s", "s", Space, "d", "a", "i", "l", "y", Quote, ",", Space, Quote,
      "c", "o", "n", "f", "i", "d", "e", "n", "c", "e", Quote, ":", Space,
      "N", "a", "N", "}", "]">>

\* "Here: [{"fact": "User plays chess daily", "confidence": 0.9}] and [{"fact": "User owns a dog now", "confidence": 0.95}]"
R_two ==
    <<"H", "e", "r", "e", ":", Space, "[", "{", Quote, "f", "a", "c", "t",
      Quote, ":", Space, Quote, "U", "s", "e", "r", Space, "p", "l", "a",
      "y", "s", Space, "c", "h", "e", "s", "s", Space, "d", "a", "i", "l",
      "y", Quote, ",", Space, Quote, "c", "o", "n", "f", "i", "d", "e", "n",
      "c", "e", Quote, ":", Space, "0", ".", "9", "}", "]", Space, "a", "n",
      "d", Space, "[", "{", Quote, "f", "a", "c", "t", Quote, ":", Space,
      Quote, "U", "s", "e", "r", Space, "o", "w", "n", "s", Space, "a",
      Space, "d", "o", "g", Space, "n", "o", "w", Quote, ",", Space, Quote,
      "c", "o", "n", "f", "i", "d", "e", "n", "c", "e", Quote, ":", Space,
      "0", ".", "9", "5", "}", "]">>

\* "[note] [{"fact": "User plays chess daily", "confidence": 0.9}]"
R_note ==
    <<"[", "n", "o", "t", "e", "]", Space, "[", "{", Quote, "f", "a", "c",
      "t", Quote, ":", Space, Quote, "U", "s", "e", "r", Space, "p", "l",
      "a", "y", "s", Space, "c", "h", "e", "s", "s", Space, "d", "a", "i",
      "l", "y", Quote, ",", Space, Quote, "c", "o", "n", "f", "i", "d", "e",
      "n", "c", "e", Quote, ":", Space, "0", ".", "9", "}", "]">>

\* "[{"fact": "User plays [chess] daily", "confidence": 0.9}]"
R_bracket ==
    <<"[", "{", Quote, "f", "a", "c", "t", Quote, ":", Space, Quote, "U",
      "s", "e", "r", Space, "p", "l", "a", "y", "s", Space, "[", "c", "h",
      "e", "s", "s", "]", Space, "d", "a", "i", "l", "y", Quote, ",", Space,
      Quote, "c", "o", "n", "f", "i", "d", "e", "n", "c", "e", Quote, ":",
      Space, "0", ".", "9", "}", "]">>

\* "[{"fact": "User plays chess daily", "confidence": 0.84}, {"fact": "short", "confidence": 0.9}, {"fact": "User said thanks a lot", "confidence": 0.9}, {"fact": "  User owns a dog  ", "confidence": 0.85}]"
R_mixed ==
    <<"[", "{", Quote, "f", "a", "c", "t", Quote, ":", Space, Quote, "U",
      "s", "e", "r", Space, "p", "l", "a", "y", "s", Space, "c", "h", "e",
      "s", "s", Space, "d", "a", "i", "l", "y", Quote, ",", Space, Quote,
      "c", "o", "n", "f", "i", "d", "e", "n", "c", "e", Quote, ":", Space,
      "0", ".", "8", "4", "}", ",", Space, "{", Quote, "f", "a", "c", "t",
      Quote, ":", Space, Quote, "s", "h", "o", "r", "t", Quote, ",", Space,
      Quote, "c", "o", "n", "f", "i", "d", "e", "n", "c", "e", Quote, ":",
      Space, "0", ".", "9", "}", ",", Space, "{", Quote, "f", "a", "c", "t",
      Quote, ":", Space, Quote, "U", "s", "e", "r", Space, "s", "a", "i",
      "d", Space, "t", "h", "a", "n", "k", "s", Space, "a", Space, "l", "o",
      "t", Quote, ",", Space, Quote, "c", "o", "n", "f", "i", "d", "e", "n",
      "c", "e", Quote, ":", Space, "0", ".", "9", "}", ",", Space, "{",
      Quote, "f", "a", "c", "t", Quote, ":", Space, Quote, Space, Space, "U",
      "s", "e", "r", Space, "o", "w", "n", "s", Space, "a", Space, "d", "o",
      "g", Space, Space, Quote, ",", Space, Quote, "c", "o", "n", "f", "i",
      "d", "e", "n", "c", "e", Quote, ":", Space, "0", ".", "8", "5", "}",
      "]">>

\* "[]"
R_empty == <<"[", "]">>

\* "no list"
R_none == <<"n", "o", Space, "l", "i", "s", "t">>

\* "[1, 2]"
R_ints == <<"[", "1", ",", Space, "2", "]">>

\* "{"fact": "User plays chess daily"}"
R_object ==
    <<"{", Quote, "f", "a", "c", "t", Quote, ":", Space, Quote, "U", "s",
      "e", "r", Space, "p", "l", "a", "y", "s", Space, "c", "h", "e", "s",
      "s", Space, "d", "a", "i", "l", "y", Quote, "}">>

\* "[{"fact": "User plays chess daily", "confidence": "0.9"}]"
R_strconf ==
    <<"[", "{", Quote, "f", "a", "c", "t", Quote, ":", Space, Quote, "U",
      "s", "e", "r", Space, "p", "l", "a", "y", "s", Space, "c", "h", "e",
      "s", "s", Space, "d", "a", "i", "l", "y", Quote, ",", Space, Quote,
      "c", "o", "n", "f", "i", "d", "e", "n", "c", "e", Quote, ":", Space,
      Quote, "0", ".", "9", Quote, "}", "]">>

\* "[{"fact": "User plays chess daily"}]"
R_noconf ==
    <<"[", "{", Quote, "f", "a", "c", "t", Quote, ":", Space, Quote, "U",
      "s", "e", "r", Space, "p", "l", "a", "y", "s", Space, "c", "h", "e",
      "s", "s", Space, "d", "a", "i", "l", "y", Quote, "}", "]">>

\* The answers of the completion service
RawResponses ==
    {R_good, R_nan, R_two, R_note, R_bracket, R_mixed, R_empty, R_none,
     R_ints, R_object, R_strconf, R_noconf}

\* re.search(r'\[.*?\]', response, re.DOTALL).group(0): the text from the
\* first "[" to the first "]" after it, <<>> when there is no match
json_match(response) ==
    LET opens == {i \in 1..Len(response) : response[i] = "["}
    IN  IF opens = {} THEN <<>>
        ELSE LET i == CHOOSE o \in opens : \A j \in opens : o <= j
                 closes == {j \in (i + 1)..Len(response) : response[j] = "]"}
             IN  IF closes = {} THEN <<>>
                 ELSE <<SubSeq(response, i,
                               CHOOSE c \in closes : \A j \in closes : c <= j)>>

\* Whether the loop `for f in facts` raises on the element f of the parsed
\* list: f.get of a value that is no dict, .strip() of a fact that is no
\* str, `confidence < 0.85` of a confidence that is no number
raises_on(f) ==
    \/ f[1] # "dict"
    \/ item(f, k_fact) # <<>> /\ item(f, k_fact)[1][1] # "str"
    \/ /\ item(f, k_confidence) # <<>>
       /\ item(f, k_confidence)[1][1] \notin {"int", "float"}

\* A number of the parsed list in hundredths
hundredths(v) == IF v[1] = "int" THEN v[2] * 100 ELSE v[2]

\* The element f of the parsed list as a candidate: its fact, its category
\* when it is a str, its confidence
candidate_of(f) ==
    [fact |-> IF item(f, k_fact) = <<>> THEN <<>>
              ELSE <<item(f, k_fact)[1][2]>>,
     category |-> IF item(f, k_category) = <<>>
                     \/ item(f, k_category)[1][1] # "str"
                  THEN <<>>
                  ELSE <<item(f, k_category)[1][2]>>,
     confidence |-> IF item(f, k_confidence) = <<>> THEN <<>>
                    ELSE <<hundredths(item(f, k_confidence)[1])>>]

\* What json.loads(json_match.group(0)) and the loop make of the parsed
\* value: an exception, or the list of the candidates
parsed_response(parsed) ==
    IF parsed = NoJSON THEN Fails
    ELSE IF parsed[1][1] # "list" THEN Fails
    ELSE IF \E k \in 1..Len(parsed[1][2]) : raises_on(parsed[1][2][k])
    THEN Fails
    ELSE Lists([k \in 1..Len(parsed[1][2]) |-> candidate_of(parsed[1][2][k])])

\* The answer `response` of self.llm.generate as extract_facts takes it: no
\* list in it, an exception inside the try, or a list of candidates
response_of(response) ==
    IF json_match(response) = <<>> THEN NoList
    ELSE Only({parsed_response(parsed) :
                  parsed \in {loads(json_match(response)[1])}})

\* response_of for each answer of the model (computed once)
Answered ==
    {p : p \in {<<response, response_of(response)>> :
                    response \in RawResponses}}

\* What the completion service does with the prompt: it raises, or answers
\* with a text
ServiceRaises == [kind |-> "raises", text |-> <<>>]

Says(response) == [kind |-> "says", text |-> response]

Services == {ServiceRaises} \cup {Says(response) : response \in RawResponses}

\* LLMBasedLearning.extract_facts(text), called when the completion service
\* does `service`
call_extract_facts(text, service) ==
    /\ turn = <<>>
    /\ last' = [NoCall EXCEPT
                   !.op = "extract", !.arg = text, !.response = <<service>>,
                   !.ret = LLMBasedLearning_extract_facts(text,
                               IF service.kind = "raises" THEN Fails
                               ELSE (CHOOSE p \in Answered :
                                        p[1] = service.text)[2])]
    /\ reply' = "none"
    /\ UNCHANGED <<facts, file, now, index, retriever, stats, turn, loaded,
                   calls, exported>>

\* SpecExtract: calls of LLMBasedLearning.extract_facts with any utterance
\* and any answer of the completion service
NextExtract ==
    \E text \in Utterances \cup FilterUtterances, service \in Services :
        call_extract_facts(text, service)

SpecExtract == InitStore /\ [][NextExtract]_vars

----------------------------------------------------------------------------
(* SpecOps: every operation of the memory system on one store.              *)

\* The manual inserts: a text, a longer text similar to it, and a text with
\* quotes and a backslash in it
OpsInserts == {T_ab, T_abcd, T_quoted}

\* What the engines return: a candidate of each engine
OpsOutcomes ==
    {<<Returns(<<Cand(F_user_birthday, identity, 95)>>), Returns(<<>>)>>,
     <<Returns(<<>>), Returns(<<Cand(F_born, identity, 90)>>)>>}

\* The queries
OpsQueries == {Q_Born, <<>>}

NextOps ==
    \/ \E fact \in OpsInserts :
           /\ Len(facts) < MaxOpsFacts
           /\ remember_fact_manually(fact, user_specified, TRUE)
    \/ \E outcomes \in OpsOutcomes :
           /\ Len(facts) < MaxOpsFacts
           /\ BeginLearn(U_own, outcomes, TRUE, TRUE)
    \/ learn_from_conversation
    \/ \E query \in OpsQueries :
           get_context_for_query(query, [raises |-> FALSE, order |-> <<>>],
                                 TRUE)
    \/ get_stats
    \/ \E writeOk \in BOOLEAN : export_training_data(writeOk)

SpecOps == InitStore /\ [][NextOps]_vars

----------------------------------------------------------------------------
(* SpecSearch: JSONMemoryBackend under inserts and searches with any limit. *)

\* The inserts: a text, a longer text similar to it under another category,
\* and an identity fact that matches the synonym "pie" of "pizza"
SearchInserts ==
    {<<F_pizza, preferences>>, <<F_pasta, general>>, <<F_pie_a, identity>>}

\* The retrievals the facts of a store have had, all together
RECURSIVE Accesses(_)
Accesses(fs) ==
    IF fs = <<>> THEN 0 ELSE fs[1].access_count + Accesses(Tail(fs))

\* The queries: a word with a synonym, the same with a word of the identity
\* branch, none
SearchQueries == {Q_pizza, Q_pizza_age, <<>>}

\* The limits of the searches
SearchLimits == 0..MaxLimit

NextSearch ==
    \/ Tick
    \/ \E ins \in SearchInserts, writeOk \in BOOLEAN :
           remember_fact_manually(ins[1], ins[2], writeOk)
    \/ \E query \in SearchQueries, limit \in SearchLimits, writeOk \in BOOLEAN :
           /\ Accesses(facts) < MaxAccess
           /\ call_get_facts(query, limit, writeOk)

SpecSearch == InitStore /\ [][NextSearch]_vars

----------------------------------------------------------------------------
(* Claims about the fact store, checked under Spec.                         *)

TextsOf(fs) == [i \in 1..Len(fs) |-> fs[i].fact]

\* C1: after any sequence of inserts from the empty store, no two distinct
\* stored facts are similar under the similarity test.
C1_NoSimilarFactsCoexist ==
    \A i, j \in 1..Len(facts) :
        i # j => <<facts[i].fact, facts[j].fact>> \notin Similar

\* C2: a second insert of the text of the insert before it returns
\* inserted=false and changes neither the number of stored facts nor any
\* stored text; if the first insert added the text, exactly one stored fact
\* has it.
C2_SecondInsertChangesNothing ==
    [][(last'.op = "remember" /\ last'.rep) =>
          /\ last'.ok
          /\ ~last'.inserted
          /\ TextsOf(facts') = TextsOf(facts)
          /\ (last.inserted =>
                 Cardinality({i \in 1..Len(facts') :
                                 facts'[i].fact = last'.arg}) = 1)]_vars

\* C2 witness: the text of the one stored fact was inserted again.
C2_Witness ==
    /\ last.op = "remember" /\ last.rep /\ ~last.inserted
    /\ TextsOf(facts) = <<last.arg>>

\* A step that is the learn step of the turn in flight
LearnStep == turn # <<>> /\ turn' = <<>>

\* A step that is one insert of text: a manual insert, or a learn step that
\* hands text, and nothing else, to save_fact
InsertOf(text) ==
    \/ turn = <<>> /\ turn' = <<>> /\ last'.op = "remember" /\ last'.arg = text
    \/ LearnStep /\ last'.offered = <<text>>

\* The pairs <<A, B>> of similar texts with B strictly longer than A
ShorterAndLonger == {p \in Similar : Len(p[2]) > Len(p[1])}

\* C3: for similar texts A and B with B strictly longer, inserting A then B,
\* or B then A, into the empty store leaves exactly one fact, with text B.
C3_MoreSpecificTextSurvives ==
    [][\A p \in ShorterAndLonger :
          LET A == p[1]
              B == p[2]
          IN  /\ (facts = <<>> /\ InsertOf(A)) => TextsOf(facts') = <<A>>
              /\ (facts = <<>> /\ InsertOf(B)) => TextsOf(facts') = <<B>>
              /\ (TextsOf(facts) = <<A>> /\ InsertOf(B)) => TextsOf(facts') = <<B>>
              /\ (TextsOf(facts) = <<B>> /\ InsertOf(A)) => TextsOf(facts') = <<B>>
      ]_vars

\* C3 witness: the store held "User likes pizza" alone; the insert of the
\* longer text about pepperoni pizza returned false and the store holds the
\* longer text alone.
C3_Witness ==
    /\ last.op = "learn" /\ last.offered = <<T_pepperoni>>
    /\ last.count = 0
    /\ <<T_likes_pizza, T_pepperoni>> \in Similar
    /\ TextsOf(facts) = <<T_pepperoni>>

----------------------------------------------------------------------------
(* Claims about learn_from_conversation, checked under SpecLearn.           *)

\* The candidate has a confidence, and it is at or above 0.85
AtOrAbove(c) == c.confidence # <<>> /\ c.confidence[1] >= ConfidenceGate

TextOf(c) == IF c.fact = <<>> THEN <<>> ELSE c.fact[1]

\* The texts of the candidates of cands that are at or above 0.85, in order
RECURSIVE PassingTexts(_)
PassingTexts(cands) ==
    IF cands = <<>> THEN <<>>
    ELSE (IF AtOrAbove(Head(cands)) THEN <<TextOf(Head(cands))>> ELSE <<>>)
         \o PassingTexts(Tail(cands))

\* The same over the engines from number e on, in the order they run
RECURSIVE PassingOf(_, _)
PassingOf(outcomes, e) ==
    IF e > Len(outcomes) THEN <<>>
    ELSE PassingTexts(outcomes[e].facts) \o PassingOf(outcomes, e + 1)

CandidatesOf(t) ==
    {t.outcomes[e].facts[i] :
        <<e, i>> \in {p \in (1..Len(t.outcomes)) \X (1..2) :
                        p[2] <= Len(t.outcomes[p[1]].facts)}}

NoFault(t) == t.writeOk /\ t.addOk

\* C4: a candidate with confidence below 0.85, or with none, is never handed
\* to the store and no stored fact carries a confidence below 0.85; a
\* candidate at or above 0.85 is handed to the store and, into an empty
\* store, is stored and written to the file.
C4_ConfidenceGate ==
    [][LearnStep =>
          LET t == turn[1]
              passing == PassingOf(t.outcomes, 1)
          IN  /\ \A k \in 1..Len(last'.offered) :
                     \E c \in CandidatesOf(t) :
                         AtOrAbove(c) /\ TextOf(c) = last'.offered[k]
              /\ \A i \in 1..Len(facts') :
                     facts'[i].metadata # <<>> =>
                         facts'[i].metadata[1].confidence >= ConfidenceGate
              /\ NoFault(t) => last'.offered = passing
              /\ (NoFault(t) /\ facts = <<>> /\ Len(passing) = 1) =>
                     (TextsOf(facts') = passing /\ file' = facts')
      ]_vars

\* C4 witness: an engine returned a candidate of confidence 0.80 and then one
\* of 0.85; the second alone was handed to the store, which holds it with its
\* confidence, and the text of the first is not stored.
C4_Witness ==
    /\ last.op = "learn" /\ last.offered = <<T_ab>> /\ last.count = 1
    /\ \E i \in 1..Len(facts) :
           /\ facts[i].fact = T_ab
           /\ facts[i].metadata # <<>>
           /\ facts[i].metadata[1].confidence = ConfidenceGate
    /\ \A i \in 1..Len(facts) : facts[i].fact # T_cd

\* The sum of the counters of a stats dict
RECURSIVE SumOver(_, _)
SumOver(d, keys) ==
    IF keys = {} THEN 0
    ELSE LET k == CHOOSE k \in keys : TRUE
         IN  d[k] + SumOver(d, keys \ {k})

Total(d) == SumOver(d, DOMAIN d)

\* C5: the count a learn call returns equals the number of increments it
\* made to the per-category counters, whatever the engines return and
\* whether or not the index add or the write succeeds.
C5_CountEqualsCategoryIncrements ==
    [][LearnStep =>
          last'.count = Total(stats'.by_category) - Total(stats.by_category)
      ]_vars

\* C6: when an engine raises, the call returns a count, the error is logged,
\* and the candidates at or above 0.85 of the other engines are handed to the
\* store in order (and, into an empty store, stored) as long as no write and
\* no index add fails.
C6_EngineErrorIsContained ==
    [][(LearnStep /\ \E e \in 1..Len(turn[1].outcomes) :
                         turn[1].outcomes[e].raises) =>
          LET t == turn[1]
              others == PassingOf(t.outcomes, 1)
          IN  /\ last'.op = "learn" /\ last'.ok
              /\ \A e \in 1..Len(t.outcomes) :
                     t.outcomes[e].raises =>
                         \E k \in 1..Len(last'.errors) :
                             last'.errors[k] = learning_engines[e]
              /\ NoFault(t) =>
                     /\ last'.offered = others
                     /\ \A k \in 1..Len(others) :
                            \E i \in 1..Len(facts') :
                                <<others[k], facts'[i].fact>> \in Similar
                     /\ facts = <<>> =>
                            (Len(facts') = Len(others) /\ last'.count = Len(others))
      ]_vars

\* C6 witness: the first engine raised, its error was logged, and the
\* candidate of the second engine was stored and counted.
C6_Witness ==
    /\ last.op = "learn" /\ last.ok
    /\ last.errors = <<learning_engines[1]>>
    /\ last.offered = <<T_pepperoni>> /\ last.count = 1
    /\ TextsOf(facts) = <<T_pepperoni>>
    /\ facts[1].metadata[1].engine = learning_engines[2]

----------------------------------------------------------------------------
(* Claims about get_context_for_query, checked under SpecContext.           *)

\* A step that is a call of get_context_for_query; last' is what the caller
\* saw of it
ContextStep ==
    turn = <<>> /\ turn' = <<>> /\ now' = now /\ last'.op = "context"

\* C7: get_context_for_query asks the semantic index first when there is
\* one and returns its documents formatted when it gives any, without a call
\* of get_facts; when there is no index, when it gives no document or when
\* its backend raises, the call comes to get_facts(query, limit 5) and
\* returns the facts of that search formatted.
C7_SemanticFirstThenKeywordSearch ==
    [][ContextStep =>
          LET query == last'.arg
          IN  /\ (last'.semantic = "absent") <=> ~retriever
              /\ (retriever /\ index = <<>>) =>
                     last'.semantic \in {"raised", "empty"}
              /\ (retriever /\ index # <<>>) =>
                     last'.semantic \in {"raised", "results"}
              /\ last'.semantic = "results" =>
                     /\ last'.ok /\ ~last'.searched
                     /\ facts' = facts /\ file' = file
                     /\ \E sem \in SemanticOutcomes(index, SemanticLimit) :
                            /\ ~sem.raises
                            /\ last'.out = _format_context(
                                   [k \in 1..Len(sem.order) |->
                                       [fact |-> index[sem.order[k]].fact,
                                        category |-> index[sem.order[k]].category]])
              /\ last'.semantic \in {"absent", "raised", "empty"} =>
                     /\ last'.searched
                     /\ last'.ok =>
                            last'.out = keyword_context(facts, query, now)
      ]_vars

\* C7 witness: the index gave a document, which the call returned formatted;
\* the stored fact that matches the query was not touched by a search.
C7_Witness ==
    /\ last.op = "context" /\ last.arg = Q_pizza
    /\ last.semantic = "results" /\ ~last.searched
    /\ contains(last.out, F_born)
    /\ \E i \in 1..Len(facts) :
           facts[i].fact = F_pizza /\ facts[i].access_count = 0

\* C8: when the store holds no facts, a call that returns returns the empty
\* string, with or without the semantic index; and a call returns the empty
\* string exactly when neither the index nor the keyword search gives a fact.
C8_EmptyStoreEmptyContext ==
    [][ContextStep =>
          /\ (facts = <<>> /\ last'.ok) => last'.out = <<>>
          /\ last'.ok =>
                 (last'.out = <<>> <=>
                      /\ last'.semantic # "results"
                      /\ get_facts(facts, last'.arg, SearchLimit, now).ret = <<>>)
      ]_vars

\* w is one word: not empty and without whitespace
IsWord(w) == w # <<>> /\ \A k \in 1..Len(w) : w[k] \notin Whitespace

\* The collection fs holds a fact whose text contains w
Holds(fs, w) == \E i \in 1..Len(fs) : contains(fs[i].fact, w)

\* The number of facts of fs that match w or one of its synonyms
MatchCount(fs, w) ==
    Cardinality({i \in 1..Len(fs) : <<fs[i].fact, w>> \in Matching})

\* A step that is an insert or a retrieval
InsertOrRetrieval == last'.op \in {"remember", "learn", "context"}

\* C9 as the specification states it: without the semantic index, once the
\* store holds a fact whose text contains the word w, get_context_for_query(w)
\* returns a string that is not empty and contains w, after any insert and
\* any retrieval.
C9_OnceStoredAlwaysRetrieved ==
    [][\A w \in ContextQueries :
          (~retriever /\ IsWord(w) /\ Holds(facts, w) /\ InsertOrRetrieval) =>
              LET out == keyword_context(facts', w, now')
              IN  out # <<>> /\ contains(out, w)
      ]_vars

\* C9 as the code has it: without the semantic index, while the store holds
\* a fact whose text contains the word w, get_context_for_query(w) calls
\* get_facts and, when it returns, returns a string that is not empty; the
\* string contains w when at most 5 stored facts match w or its synonyms.
C9_StoredWordIsRetrieved ==
    [][(ContextStep /\ ~retriever /\ IsWord(last'.arg)
            /\ Holds(facts, last'.arg)) =>
          /\ last'.searched
          /\ Holds(facts', last'.arg)
          /\ last'.ok =>
                 /\ last'.out # <<>>
                 /\ MatchCount(facts, last'.arg) <= SearchLimit =>
                        contains(last'.out, last'.arg)
      ]_vars

\* C9 witness: without the index, the store holds the fact about pizza and
\* get_context_for_query("pizza") returned a block that contains "pizza".
C9_Witness ==
    /\ ~retriever
    /\ last.op = "context" /\ last.arg = Q_pizza /\ last.ok /\ last.searched
    /\ \E i \in 1..Len(facts) :
           facts[i].fact = F_pizza /\ facts[i].access_count > 0
    /\ contains(last.out, Q_pizza)

\* The sixth match is cut: the store holds the fact about pizza and five
\* facts that match the synonym "pie", and the block returned for "pizza"
\* does not contain "pizza".
C9_CrowdedOut ==
    /\ ~retriever
    /\ last.op = "context" /\ last.arg = Q_pizza /\ last.ok
    /\ Holds(facts, Q_pizza)
    /\ MatchCount(facts, Q_pizza) > SearchLimit
    /\ last.out # <<>> /\ ~contains(last.out, Q_pizza)

\* C10: learn_from_conversation and get_context_for_query never raise: every
\* call returns to its caller, whatever the engines, the semantic backend
\* and the write of the file do.
C10_NeverRaises ==
    last.op \in {"learn", "context"} => last.ok

----------------------------------------------------------------------------
(* Claims about the session after startup, checked under SpecLoad.          *)

\* C11: whatever is at the path of the fact file at startup (nothing, a file
\* that cannot be read or parsed, a document of another shape), the inserts,
\* the searches and the reads of all facts that follow return without error,
\* as long as the writes of the file succeed.
C11_AnyFileLoadsToUsableStore ==
    last.op \in {"remember", "context", "stats"} => last.ok

----------------------------------------------------------------------------
(* Claims about concurrent inserts, checked under SpecConcurrent.           *)

\* Both calls of save_fact have returned
BothDone == \A t \in Turns : calls[t].pc = "done"

\* The collection fs holds the text, or a text similar to it that took its
\* place
Covers(fs, text) == \E i \in 1..Len(fs) : <<text, fs[i].fact>> \in Similar

\* C12: when the inserts of two concurrent chat turns into the empty store
\* have both returned, no two stored facts are similar, and every fact whose
\* insert returned true is in the collection and in the file.
C12_ConcurrentInsertsKeepContract ==
    BothDone =>
        /\ \A i, j \in 1..Len(facts) :
               i # j => <<facts[i].fact, facts[j].fact>> \notin Similar
        /\ \A t \in Turns :
               calls[t].ret =>
                   Covers(facts, calls[t].fact) /\ Covers(file, calls[t].fact)

----------------------------------------------------------------------------
(* Claims about the chat turn and the engines, checked under SpecChat.      *)

\* C13: the learn step of a chat turn always comes to its end: whatever the
\* completion service does, never answering included, the step can be taken.
C13_LearnAlwaysTerminates ==
    turn # <<>> => ENABLED learn_from_conversation

\* A step of the chat turn that returns the reply while the learn step is
\* still due
ReplyReturnsAlone == NextChat /\ reply' = "returned" /\ turn' # <<>>

\* C14: the return of the reply never waits for the learn step: while the
\* reply is ready and the learn step is due, the reply can be returned
\* without the learn step having come to its end.
C14_ReplyDoesNotWaitForLearn ==
    (reply = "ready" /\ turn # <<>>) => ENABLED ReplyReturnsAlone

\* "okay"
okay == <<"o", "k", "a", "y">>

\* "sounds good"
sounds_good == <<"s", "o", "u", "n", "d", "s", Space, "g", "o", "o", "d">>

\* "i'm fine"
i_m_fine == <<"i", "'", "m", Space, "f", "i", "n", "e">>

\* "thanks"
thanks == <<"t", "h", "a", "n", "k", "s">>

\* The trivial responses that the specification names
TrivialResponses == {okay, sounds_good, i_m_fine, thanks}

\* The phrases that the lists of both engines hold
SharedPhrases == trivial \cap ignore_phrases

SaysTrivial(text) ==
    \E phrase \in SharedPhrases : contains(lower(text), phrase)

C15_OnlyOneListHolds ==
    /\ turn # <<>> /\ turn[1].user_message = U_great
    /\ \E phrase \in ignore_phrases \ trivial : contains(lower(U_great), phrase)
    /\ turn[1].outcomes[1] = Returns(<<>>)
    /\ turn[1].outcomes[2] = Returns(<<Cand(F_name, identity, 90)>>)

C17_TextAndConfidenceInRange ==
    \A i \in 1..Len(facts) :
        /\ facts[i].fact # <<>>
        /\ facts[i].metadata # <<>> =>
               /\ facts[i].metadata[1].confidence >= 0
               /\ facts[i].metadata[1].confidence <= 100

\* The positions of the facts about the birthday of the user and about the
\* birthday of the pet
OwnBirthday(fs) == {i \in 1..Len(fs) : fs[i].fact = F_user_birthday}

PetBirthday(fs) ==
    {i \in 1..Len(fs) : fs[i].fact \in {F_pet_birthday, F_dog_birthday}}

\* C19: the similarity test does not judge the fact of "My birthday is March
\* 24, 1990" and the fact of "My dog's birthday is June 5" similar; learning
\* from the one stores a fact about the birthday of the user, learning from
\* the other a fact about the birthday of the pet; no learn step overwrites
\* or drops either, and from the empty store the two, in either order, leave
\* these two facts.
C19_BirthdaysStayApart ==
    [][LearnStep =>
          LET u == turn[1].user_message
              quiet == turn[1].outcomes[1].facts = <<>>
          IN  /\ <<F_user_birthday, F_pet_birthday>> \notin Similar
              /\ <<F_pet_birthday, F_user_birthday>> \notin Similar
              /\ u = U_own => OwnBirthday(facts') # {}
              /\ u = U_dog => PetBirthday(facts') # {}
              /\ OwnBirthday(facts) \subseteq OwnBirthday(facts')
              /\ PetBirthday(facts) \subseteq PetBirthday(facts')
              /\ (quiet /\ u = U_own /\ TextsOf(facts) = <<F_pet_birthday>>) =>
                     TextsOf(facts') = <<F_pet_birthday, F_user_birthday>>
              /\ (quiet /\ u = U_dog /\ TextsOf(facts) = <<F_user_birthday>>) =>
                     TextsOf(facts') = <<F_user_birthday, F_pet_birthday>>
      ]_vars

\* C19 witness: the pattern engine learned the birthday of the dog and then
\* the birthday of the user; the store holds the two facts.
C19_Witness ==
    /\ last.op = "learn" /\ last.arg = U_own /\ last.count = 1
    /\ TextsOf(facts) = <<F_pet_birthday, F_user_birthday>>
    /\ \A i \in 1..2 : facts[i].metadata[1].engine = "PatternBasedLearning"
    /\ facts[1].category = relationships /\ facts[2].category = identity

\* C26 (under SpecFilter): both engines apply the same filter before any
\* extraction: each
\* returns no candidate for an utterance of fewer than 3 words and for an
\* utterance that starts with an interrogative word, and the two engines
\* reject the same utterances at this stage.
C26_EnginesShareThePreFilter ==
    turn # <<>> =>
        LET text == turn[1].user_message
            question == \E q \in LLMQuestionWords \cup PatternQuestionWords :
                            startswith(strip(lower(text)), q)
        IN  /\ (word_count(text) < MinWords \/ question) =>
                   \A e \in 1..Len(learning_engines) :
                       turn[1].outcomes[e] = Returns(<<>>)
            /\ llm_skips(text) <=> pattern_skips(text)

----------------------------------------------------------------------------
(* Claims about the categories, checked under Spec.                         *)

\* "interests"
interests == <<"i", "n", "t", "e", "r", "e", "s", "t", "s">>

\* "events"
events == <<"e", "v", "e", "n", "t", "s">>

\* "goals"
goals == <<"g", "o", "a", "l", "s">>

\* "routines"
routines == <<"r", "o", "u", "t", "i", "n", "e", "s">>

\* "other"
other == <<"o", "t", "h", "e", "r">>

\* The categories of the prompt of LLMBasedLearning
FactCategories ==
    {identity, interests, preferences, relationships, events, goals, routines,
     other}

\* C16: every stored fact has a category of the list identity, interests,
\* preferences, relationships, events, goals, routines, other.
C16_CategoriesAreOfTheList ==
    \A i \in 1..Len(facts) : facts[i].category \in FactCategories

----------------------------------------------------------------------------
(* Claims about the export and about every operation, checked under SpecOps. *)

\* A step that is a call of export_training_data which wrote the file
ExportStep ==
    turn = <<>> /\ turn' = <<>> /\ last'.op = "export" /\ last'.ok

OperationStep ==
    last'.op \in {"remember", "learn", "context", "stats", "export"}

\* C20: no operation (save_fact through remember_fact_manually and
\* learn_from_conversation, get_facts through get_context_for_query,
\* get_all_facts through get_stats and export_training_data) removes a stored
\* fact: the number of stored facts never decreases.
C20_NoOperationRemovesAFact ==
    [][OperationStep => Len(facts') >= Len(facts)]_vars

\* C20 witness: a store of two facts after an insert replaced the text of
\* one by a longer similar text, a retrieval and an export.
C20_Witness ==
    /\ Len(facts) = 2
    /\ \E i \in 1..Len(facts) : facts[i].fact = T_abcd
    /\ \E i \in 1..Len(facts) : facts[i].access_count > 0
    /\ exported # <<>>
    /\ last.op = "stats" /\ last.count = 2

----------------------------------------------------------------------------
(* SpecUpdate: a store that manual inserts, learned inserts and searches    *)
(* change as the clock moves on.                                            *)

\* What the engines return in a turn: the shorter text from the first
\* engine, or the longer text under another category from the second
UpdateOutcomes ==
    {<<Returns(<<Cand(F_pizza, preferences, 95)>>), Returns(<<>>)>>,
     <<Returns(<<>>), Returns(<<Cand(F_pasta, general, 90)>>)>>}

NextUpdate ==
    \/ Tick
    \/ \E ins \in SearchInserts : remember_fact_manually(ins[1], ins[2], TRUE)
    \/ \E outcomes \in UpdateOutcomes : BeginLearn(U_turn, outcomes, TRUE, TRUE)
    \/ learn_from_conversation
    \/ call_get_facts(Q_pizza, SearchLimit, TRUE)

SpecUpdate == InitStore /\ [][NextUpdate]_vars

----------------------------------------------------------------------------
(* Claims about inserts and searches, checked under SpecSearch.             *)

\* A step that is one call of remember_fact_manually
InsertStep ==
    turn = <<>> /\ turn' = <<>> /\ now' = now /\ last'.op = "remember"

\* A step that is one call of get_facts
SearchStep ==
    turn = <<>> /\ turn' = <<>> /\ now' = now /\ last'.op = "search"

\* The stored facts that the similarity test puts next to text
SimilarTo(text) == {i \in 1..Len(facts) : <<text, facts[i].fact>> \in Similar}

\* The similar stored fact that the loop of save_fact comes to first
FirstSimilar(text) ==
    CHOOSE i \in SimilarTo(text) : \A j \in SimilarTo(text) : i <= j

\* C21: an insert has exactly three outcomes.  No stored fact is similar to
\* the candidate: one fact with the candidate's text is appended and the call
\* returns true.  A stored fact is similar and the candidate is strictly
\* longer: the text of that fact is overwritten in place, the count stays and
\* the call returns false.  A stored fact is similar and the candidate is not
\* longer: the call returns false and nothing changes.
C21_InsertHasThreeOutcomes ==
    [][InsertStep =>
          LET text == last'.arg
              n == Len(facts)
          IN  IF SimilarTo(text) = {}
              THEN /\ Len(facts') = n + 1
                   /\ SubSeq(facts', 1, n) = facts
                   /\ facts'[n + 1].fact = text
                   /\ last'.ok => last'.inserted
              ELSE LET i == FirstSimilar(text)
                   IN  IF Len(text) > Len(facts[i].fact)
                       THEN /\ Len(facts') = n
                            /\ facts'[i].fact = text
                            /\ \A j \in 1..n : j # i => facts'[j] = facts[j]
                            /\ ~last'.inserted
                       ELSE /\ facts' = facts
                            /\ file' = file
                            /\ last'.ok /\ ~last'.inserted
      ]_vars

\* C21 witness: the three outcomes have happened in turn: the store holds
\* "we like hot pasta now" in the place where "we like hot pizza" was
\* appended, and the last call, an insert of "we like hot pizza", returned
\* false and left it so.
C21_Witness ==
    /\ last.op = "remember" /\ last.arg = F_pizza /\ last.ok /\ ~last.inserted
    /\ Len(facts) = 2
    /\ facts[1].fact = F_pasta /\ facts[1].category = preferences
    /\ facts[2].fact = F_pie_a

\* The stored facts whose lower-cased text contains a word of the query or a
\* synonym of one
MatchingFacts(fs, query) ==
    {i \in 1..Len(fs) : <<fs[i].fact, query>> \in Matching}

\* C23: a search with a non-empty query returns exactly the facts whose
\* lower-cased text contains a word of the query or a synonym of one,
\* ordered by access count descending, then creation time descending, and
\* cut to at most limit: every returned entry is such a fact of the store,
\* none twice; as many are returned as there are, up to limit; no returned
\* entry goes before one returned ahead of it; and no such fact that was cut
\* goes before a returned one.
C23_SearchReturnsMatchesInOrder ==
    [][(SearchStep /\ last'.arg # <<>> /\ last'.ok) =>
          LET ret == last'.ret
              hits == MatchingFacts(facts', last'.arg)
          IN  /\ \A k \in 1..Len(ret) : \E i \in hits : facts'[i] = ret[k]
              /\ \A j, k \in 1..Len(ret) : j # k => ret[j] # ret[k]
              /\ Len(ret) = Min(last'.limit, Cardinality(hits))
              /\ \A j, k \in 1..Len(ret) :
                     j < k => ~SortsBefore(ret[k], ret[j])
              /\ \A i \in hits :
                     (\A k \in 1..Len(ret) : ret[k] # facts'[i])
                     => \A k \in 1..Len(ret) : ~SortsBefore(facts'[i], ret[k])
      ]_vars

\* C23 witness: the store holds "pie a" of time 0, then "we like hot pizza"
\* of time 1, neither retrieved before; the search for "pizza" with limit 1
\* has returned the later one alone, and both match.
C23_Witness ==
    /\ last.op = "search" /\ last.arg = Q_pizza /\ last.limit = 1 /\ last.ok
    /\ TextsOf(facts) = <<F_pie_a, F_pizza>>
    /\ facts[1].timestamp = 0 /\ facts[2].timestamp = 1
    /\ MatchingFacts(facts, Q_pizza) = {1, 2}
    /\ TextsOf(last.ret) = <<F_pizza>>
    /\ last.ret[1].access_count = 1

\* C24: for every non-empty query, each fact that the search returns has its
\* access count raised by exactly one and its last-access time set by that
\* call; the access count of a stored fact is a non-negative integer that no
\* step lowers.
C24_ReturnedFactsAreCounted ==
    [][/\ (SearchStep /\ last'.arg # <<>> /\ last'.ok) =>
              \A k \in 1..Len(last'.ret) :
                  \E i \in 1..Len(facts) :
                      /\ facts[i].fact = last'.ret[k].fact
                      /\ facts'[i] = last'.ret[k]
                      /\ facts'[i].access_count = facts[i].access_count + 1
                      /\ facts'[i].last_accessed = <<now>>
       /\ Len(facts') >= Len(facts)
       /\ \A i \in 1..Len(facts) :
              /\ facts[i].access_count \in Nat
              /\ facts'[i].access_count \in Nat
              /\ facts'[i].access_count >= facts[i].access_count
      ]_vars

\* C24 witness: "we like hot pizza" was retrieved at time 0; the search for
\* "pizza age" at time 1 has returned it with access count 2 and last-access
\* time 1.
C24_Witness ==
    /\ last.op = "search" /\ last.arg = Q_pizza_age /\ last.ok
    /\ now = 1
    /\ TextsOf(last.ret) = <<F_pizza>>
    /\ last.ret[1].access_count = 2 /\ last.ret[1].last_accessed = <<1>>
    /\ facts = last.ret

\* C25: a search with the empty query returns the limit most recently
\* created facts, all of them when fewer exist and never more than limit for
\* any limit >= 0, and changes nothing: no access count, no last-access time,
\* not the file.
C25_EmptyQueryReturnsMostRecent ==
    [][(SearchStep /\ last'.arg = <<>>) =>
          LET ret == last'.ret
              returned == {i \in 1..Len(facts) :
                              \E k \in 1..Len(ret) : ret[k] = facts[i]}
          IN  /\ Len(ret) = Min(last'.limit, Len(facts))
              /\ Cardinality(returned) = Len(ret)
              /\ \A i \in 1..Len(facts) : \A j \in returned :
                     i \notin returned => facts[i].timestamp <= facts[j].timestamp
              /\ facts' = facts
              /\ file' = file
      ]_vars

\* C28: after every call of the store that changes the collection and
\* completes (an insert that appends or updates, a search with a non-empty
\* query) the file holds exactly the collection in memory; when the write of
\* the file fails, the memory holds the change all the same: the candidate's
\* text is stored, the matching facts are counted.
C28_FileFollowsMemory ==
    [][/\ (InsertStep /\ last'.ok /\ facts' # facts) => file' = facts'
       /\ (SearchStep /\ last'.ok /\ last'.arg # <<>>) => file' = facts'
       /\ (InsertStep /\ ~last'.ok) =>
              /\ facts' # facts
              /\ \E i \in 1..Len(facts') : facts'[i].fact = last'.arg
       /\ (SearchStep /\ ~last'.ok) =>
              /\ Len(facts') = Len(facts)
              /\ \A i \in MatchingFacts(facts, last'.arg) :
                     facts'[i].access_count = facts[i].access_count + 1
      ]_vars

\* C28 witness: the insert of "we like hot pizza" completed and the file
\* holds it; the write of the search for "pizza" has failed and the memory
\* holds the fact with its retrieval counted.
C28_Witness ==
    /\ last.op = "search" /\ last.arg = Q_pizza /\ ~last.ok
    /\ TextsOf(file) = <<F_pizza>> /\ file[1].access_count = 0
    /\ TextsOf(facts) = <<F_pizza>> /\ facts[1].access_count = 1

\* C30: a search with a non-empty query changes the access count and the
\* last-access time of the facts it returns only: a stored fact that is not
\* in the returned list, one that matches and is cut off by limit included,
\* is left as it was.
C30_OnlyReturnedFactsAreCounted ==
    [][(SearchStep /\ last'.arg # <<>> /\ last'.ok) =>
          /\ Len(facts') = Len(facts)
          /\ \A i \in 1..Len(facts) :
                 (\A k \in 1..Len(last'.ret) : last'.ret[k].fact # facts[i].fact)
                 => /\ facts'[i].access_count = facts[i].access_count
                    /\ facts'[i].last_accessed = facts[i].last_accessed
      ]_vars

----------------------------------------------------------------------------
(* Claims about the update path, checked under SpecUpdate.                  *)

\* The candidate that a step hands to save_fact, with the metadata it comes
\* with: a manual insert has none, a learned insert names the engine, the
\* confidence and the start of the utterance.  A learn step of SpecUpdate
\* has one candidate, of one engine.
Candidates ==
    IF InsertStep
    THEN {[fact |-> last'.arg, metadata |-> <<>>]}
    ELSE IF LearnStep
    THEN {[fact |-> turn[1].outcomes[e].facts[1].fact[1],
           metadata |->
               <<[confidence |-> turn[1].outcomes[e].facts[1].confidence[1],
                  engine |-> learning_engines[e],
                  learned_from |-> learned_from(turn[1].user_message)]>>] :
             e \in {d \in 1..Len(learning_engines) :
                        turn[1].outcomes[d].facts # <<>>}}
    ELSE {}

\* C22: on the update path (a stored fact is similar to the candidate and the
\* candidate is strictly longer) the insert overwrites the text, the creation
\* time and the metadata of that fact with the candidate's, and leaves its
\* category, its access count, its last-access time and its position, and
\* every other fact, as they were.
C22_UpdateOverwritesTextTimeMetadata ==
    [][\A c \in Candidates :
          (/\ SimilarTo(c.fact) # {}
           /\ Len(c.fact) > Len(facts[FirstSimilar(c.fact)].fact))
          => LET i == FirstSimilar(c.fact)
             IN  /\ Len(facts') = Len(facts)
                 /\ facts'[i].fact = c.fact
                 /\ facts'[i].timestamp = now
                 /\ facts'[i].metadata = c.metadata
                 /\ facts'[i].category = facts[i].category
                 /\ facts'[i].access_count = facts[i].access_count
                 /\ facts'[i].last_accessed = facts[i].last_accessed
                 /\ \A j \in 1..Len(facts) : j # i => facts'[j] = facts[j]
      ]_vars

\* C22 witness: "we like hot pizza" was inserted by hand under preferences
\* at time 0 and retrieved once; the turn that learned "we like hot pasta
\* now" under general at time 1 has left one fact in its place with the new
\* text, time 1 and the metadata of the learned fact, still under
\* preferences and with its access count and last-access time, next to
\* another fact.
C22_Witness ==
    /\ last.op = "learn" /\ last.offered = <<F_pasta>>
    /\ now = 1
    /\ Len(facts) = 2
    /\ facts[1] = [fact |-> F_pasta, category |-> preferences, timestamp |-> 1,
                   access_count |-> 1, last_accessed |-> <<0>>,
                   metadata |-> <<[confidence |-> 90,
                                   engine |-> "PatternBasedLearning",
                                   learned_from |-> U_turn]>>]
    /\ facts[2].fact = F_pie_a /\ facts[2].timestamp = 0

----------------------------------------------------------------------------
(* Claims about LLMBasedLearning.extract_facts, checked under SpecExtract.  *)

\* The candidates of the first JSON array of an answer, none when the
\* service raises or the answer holds no array that parses
FirstArray(service) ==
    IF service.kind = "raises" THEN <<>>
    ELSE (CHOOSE p \in Answered : p[1] = service.text)[2].facts

\* C27: for every answer of the completion service, the engine returns only
\* facts of the first JSON array of the answer that have a confidence of at
\* least 0.85, no trivial phrase in them and at least 10 characters; when the
\* answer holds no array that parses, or the call of the service raises, it
\* returns the empty list; and it never raises.
C27_ExtractorKeepsOnlyValidFacts ==
    last.op = "extract" =>
        /\ last.ok
        /\ \A k \in 1..Len(last.ret) :
               /\ \E j \in 1..Len(FirstArray(last.response[1])) :
                      FirstArray(last.response[1])[j] = last.ret[k]
               /\ last.ret[k].confidence # <<>>
               /\ last.ret[k].confidence[1] >= MinConfidence
               /\ last.ret[k].fact # <<>>
               /\ Len(last.ret[k].fact[1]) >= MinFactLen
               /\ \A phrase \in ignore_phrases :
                      ~contains(lower(last.ret[k].fact[1]), phrase)
        /\ FirstArray(last.response[1]) = <<>> => last.ret = <<>>

----------------------------------------------------------------------------
(* Claims about the semantic index, checked under SpecLearn.                *)

\* C29: with a semantic index, every fact text that get_context_for_query
\* returns is the text of a fact that the store holds: the index is given a
\* fact only on a true insert, and after any sequence of learned inserts,
\* manual inserts and updates it holds no text that the store has replaced or
\* does not contain.
C29_IndexHoldsStoredTextsOnly ==
    \A k \in 1..Len(index) :
        \E i \in 1..Len(facts) : facts[i].fact = index[k].fact

============================================================================
